---- MODULE Spec2Model ----
(***************************************************************************)
(* Protocol engine of the TelemetryFlow MCP server: the Session aggregate  *)
(* (domain/aggregates/session.py), the tool invocation pipeline            *)
(* (application/handlers/tool_handler.py) and the JSON-RPC server with its *)
(* stdio run loop (presentation/server/server.py).                         *)
(*                                                                         *)
(* Conventions: an optional value (Python None / a value) is the empty     *)
(* tuple or a one-element tuple.  A text built with an f-string is a       *)
(* record [text, arg] that keeps the literal part and the interpolated     *)
(* value apart.  A URI is the tuple of its characters after the scheme.    *)
(***************************************************************************)
EXTENDS Integers, Sequences, FiniteSets, TLC

\* ------------------------------------------------------------------ bounds
\* input lines the run loop reads before stdin is at EOF
MaxLines == 2
\* registry operations done by the embedding code on the server's session
MaxRegs == 2
\* operations applied to a stand-alone Session (SessionSpec)
MaxOps == 3
\* concurrent calls of ToolHandler.handle_execute (ToolSpec)
MaxCalls == 2
\* steps a running tool handler takes on its own (ToolSpec)
MaxSteps == 1
\* events added to the queue of a Session (EventSpec)
MaxEvents == 3
\* threads calling Session.get_events (EventSpec)
MaxGetters == 2
\* threads calling the registry methods of one Session (RegistrySpec)
MaxThreads == 2
\* registry method calls in one behaviour (RegistrySpec)
MaxRegistryOps == 4
\* calls on one in-memory repository in one behaviour (RepositorySpec)
MaxRepositoryOps == 5
\* characters of a candidate tool name after its run of "a" (NameSpec)
MaxTail == 2

\* --------------------------------------------------------- program constants
PARSE_ERROR == -32700
INVALID_REQUEST == -32600
METHOD_NOT_FOUND == -32601
INVALID_PARAMS == -32602
INTERNAL_ERROR == -32603
MAX_MESSAGE_SIZE == 10 * 1024 * 1024
JSONRPC_VERSION == "2.0"
DefaultTimeout == 30

\* ------------------------------------------------------------------ helpers
None == <<>>
Some(x) == <<x>>
Get(o) == o[1]

Msg(text, arg) == [text |-> text, arg |-> arg]

\* ------------------------------------------------------------ Session (unit)
SessionStates == {"created", "initializing", "ready", "closing", "closed"}

Clients == {[name |-> "cli", version |-> "1.0"], [name |-> "unknown", version |-> "unknown"]}

\* a to_dict that announces every capability
CapabilitiesToDictAll(caps) == {"tools", "resources", "prompts", "logging", "sampling"}

\* SessionCapabilities.to_dict: a key per enabled flag
CapabilitiesToDict(caps) ==
    {k \in {"tools", "resources", "prompts", "logging", "sampling"} : caps[k]}

\* Session.create: state CREATED, empty registries, one SessionCreated event
SessionCreate(id, caps, now) ==
    [id |-> id,
     state |-> "created",
     client_info |-> None,
     capabilities |-> caps,
     log_level |-> "info",
     tools |-> <<>>,
     resources |-> <<>>,
     prompts |-> <<>>,
     created_at |-> now,
     initialized_at |-> None,
     closed_at |-> None,
     events |-> <<[type |-> "SessionCreated", session_id |-> id]>>]

\* Session._build_initialize_response
BuildInitializeResponse(s) ==
    [keys |-> {"protocolVersion", "capabilities", "serverInfo"},
     protocolVersion |-> "2024-11-05",
     capabilities |-> CapabilitiesToDict(s.capabilities),
     serverInfo |-> "TelemetryFlow-MCP"]

\* Session.initialize: [raised, exc, msg, session, result]
SessionInitializeUnguarded(s, client, now) ==
    LET s2 == [s EXCEPT !.state = "ready",
                        !.client_info = Some(client),
                        !.initialized_at = Some(now),
                        !.events = Append(@, [type |-> "SessionInitialized",
                                              session_id |-> s.id,
                                              client_name |-> client.name])]
    IN [raised |-> FALSE, exc |-> "", msg |-> Msg("", <<>>),
        session |-> s2, result |-> BuildInitializeResponse(s2)]

SessionInitialize(s, client, now) ==
    IF s.state \notin {"created", "initializing"}
    THEN [raised |-> TRUE, exc |-> "ValueError",
          msg |-> Msg("Cannot initialize session in state: ", <<s.state>>),
          session |-> s, result |-> None]
    ELSE LET s2 == [s EXCEPT !.state = "ready",
                             !.client_info = Some(client),
                             !.initialized_at = Some(now),
                             !.events = Append(@, [type |-> "SessionInitialized",
                                                   session_id |-> s.id,
                                                   client_name |-> client.name])]
         IN [raised |-> FALSE, exc |-> "", msg |-> Msg("", <<>>),
             session |-> s2, result |-> BuildInitializeResponse(s2)]

\* Session.close: no-op when CLOSED, else CLOSED with closed_at and one event
SessionCloseUnguarded(s, now) ==
    [s EXCEPT !.state = "closed",
              !.closed_at = Some(now),
              !.events = Append(@, [type |-> "SessionClosed", session_id |-> s.id])]

SessionClose(s, now) ==
    IF s.state = "closed"
    THEN s
    ELSE [s EXCEPT !.state = "closed",
                   !.closed_at = Some(now),
                   !.events = Append(@, [type |-> "SessionClosed", session_id |-> s.id])]

\* Session.set_log_level
SessionSetLogLevel(s, level) == [s EXCEPT !.log_level = level]

\* --------------------------------------------------------------- registries
\* a Python dict: the sequence of its <<key, value>> items in insertion order
IndexOf(d, key) ==
    LET hits == {i \in 1..Len(d) : d[i][1] = key}
    IN IF hits = {} THEN 0 ELSE CHOOSE i \in hits : \A j \in hits : i <= j

\* an assignment that appends without looking for the key
DictSetAppend(d, key, value) == Append(d, <<key, value>>)

\* d[key] = value: a present key keeps its place
DictSet(d, key, value) ==
    LET i == IndexOf(d, key)
    IN IF i = 0 THEN Append(d, <<key, value>>) ELSE [d EXCEPT ![i] = <<key, value>>]

\* del d[key]
DictDel(d, key) ==
    LET i == IndexOf(d, key)
    IN [j \in 1..(Len(d) - 1) |-> IF j < i THEN d[j] ELSE d[j + 1]]

\* d.get(key)
DictGet(d, key) ==
    LET i == IndexOf(d, key)
    IN IF i = 0 THEN None ELSE Some(d[i][2])

\* list(d.values())
DictValues(d) == [i \in 1..Len(d) |-> d[i][2]]

\* Tool: name, enabled flag, optional handler, timeout
ToolNames == {"echo", "bare"}
ToolCatalogue ==
    {[name |-> "echo", enabled |-> TRUE, has_handler |-> TRUE, timeout_seconds |-> DefaultTimeout],
     [name |-> "echo", enabled |-> FALSE, has_handler |-> TRUE, timeout_seconds |-> DefaultTimeout],
     [name |-> "bare", enabled |-> TRUE, has_handler |-> FALSE, timeout_seconds |-> DefaultTimeout]}

\* ResourceURI.is_template: the value holds both braces
IsTemplateURI(uri) ==
    /\ \E i \in 1..Len(uri) : uri[i] = "{"
    /\ \E i \in 1..Len(uri) : uri[i] = "}"

\* Resource.create
ResourceCreate(uri, has_reader) ==
    [uri |-> uri, has_reader |-> has_reader,
     is_template |-> IsTemplateURI(uri),
     uri_template |-> IF IsTemplateURI(uri) THEN Some(uri) ELSE None]

\* str.split("{")[0]
RECURSIVE BeforeBrace(_)
BeforeBrace(uri) ==
    IF uri = <<>> \/ Head(uri) = "{" THEN <<>>
    ELSE <<Head(uri)>> \o BeforeBrace(Tail(uri))

\* str.startswith
StartsWith(uri, prefix) ==
    /\ Len(prefix) <= Len(uri)
    /\ SubSeq(uri, 1, Len(prefix)) = prefix

\* a matcher that lets every template match every URI
MatchesURIAnyTemplate(r, uri) == r.is_template \/ r.uri = uri

\* Resource.matches_uri
MatchesURI(r, uri) ==
    IF ~r.is_template THEN r.uri = uri
    ELSE StartsWith(uri, BeforeBrace(r.uri))

\* Resource.template: a template whatever the URI holds
ResourceTemplate(uri, has_reader) ==
    [uri |-> uri, has_reader |-> has_reader, is_template |-> TRUE, uri_template |-> Some(uri)]

\* resources the embedding code registers: two plain ones, a template with
\* braces and one made by Resource.template from a URI without braces
ResourceCatalogue ==
    {ResourceCreate(<<"a", "b">>, TRUE),
     ResourceCreate(<<"a", "{", "}">>, TRUE),
     ResourceCreate(<<"c">>, FALSE),
     ResourceTemplate(<<"c">>, TRUE)}

\* URIs a client asks for
RequestURIs == {<<"a", "b">>, <<"a", "c">>, <<"d">>}

\* Prompt: name, ordered arguments (name, required flag), optional generator
PromptCatalogue ==
    {[name |-> "review", has_generator |-> TRUE,
      arguments |-> <<[name |-> "code", required |-> TRUE], [name |-> "lang", required |-> FALSE]>>],
     [name |-> "plain", has_generator |-> FALSE, arguments |-> <<>>]}

\* Session.register_tool / unregister_tool / get_tool / list_tools
SessionRegisterTool(s, tool) == [s EXCEPT !.tools = DictSet(@, tool.name, tool)]
SessionUnregisterTool(s, name) ==
    IF IndexOf(s.tools, name) # 0
    THEN [ret |-> TRUE, session |-> [s EXCEPT !.tools = DictDel(@, name)]]
    ELSE [ret |-> FALSE, session |-> s]
SessionGetTool(s, name) == DictGet(s.tools, name)
SessionListTools(s) == DictValues(s.tools)

\* Session.register_resource / get_resource / list_resources
SessionRegisterResource(s, r) == [s EXCEPT !.resources = DictSet(@, r.uri, r)]
\* a lookup that tries the matchers in registry order before the exact key
SessionGetResourceMatchFirst(s, uri) ==
    LET hits == {i \in 1..Len(s.resources) : MatchesURI(s.resources[i][2], uri)}
    IN IF hits = {} THEN None
       ELSE Some(s.resources[CHOOSE i \in hits : \A j \in hits : i <= j][2])

SessionGetResource(s, uri) ==
    IF IndexOf(s.resources, uri) # 0
    THEN DictGet(s.resources, uri)
    ELSE LET hits == {i \in 1..Len(s.resources) : MatchesURI(s.resources[i][2], uri)}
         IN IF hits = {} THEN None
            ELSE Some(s.resources[CHOOSE i \in hits : \A j \in hits : i <= j][2])
SessionListResources(s) == DictValues(s.resources)

\* Session.register_prompt / get_prompt / list_prompts
SessionRegisterPrompt(s, p) == [s EXCEPT !.prompts = DictSet(@, p.name, p)]
SessionGetPrompt(s, name) == DictGet(s.prompts, name)
SessionListPrompts(s) == DictValues(s.prompts)

\* Session._add_event
SessionAddEvent(s, e) == [s EXCEPT !.events = Append(@, e)]

\* ---------------------------------------------------- tool invocation pipeline
\* ToolResult.text / ToolResult.error
ToolResultText(msg, is_error) ==
    [content |-> <<[type |-> "text", text |-> msg]>>, is_error |-> is_error]
ToolResultError(msg) == ToolResultText(msg, TRUE)

\* ToolResult.to_dict: isError only when true
ToolResultToDict(r) ==
    [keys |-> {"content"} \cup (IF r.is_error THEN {"isError"} ELSE {}),
     content |-> r.content]

\* what one call of a handler function does: it returns a result, returns an
\* error result (with or without content), raises, or outlives the timeout
HandlerBehaviours ==
    {"ok", "err_result", "err_empty", "raise_value", "raise_other", "raise_timeout", "slow"}

\* f"{tool.timeout_seconds}s"
SecondsText(t) == IF t = DefaultTimeout THEN "30.0s" ELSE "120.0s"

\* Tool.execute awaited under asyncio.wait_for: [kind, result, exc, msg, invoked]
\* kind: "return", "raise" or "timeout" (wait_for cancelled the task)
\* an execute that calls the handler function without looking at the tool
ToolExecuteNoGuard(tool, beh) ==
    [kind |-> "return", result |-> ToolResultText(Msg("handler output", <<tool.name>>), FALSE),
     exc |-> "", msg |-> Msg("", <<>>), invoked |-> TRUE]

ToolExecute(tool, beh) ==
    LET ret(r, inv) == [kind |-> "return", result |-> r, exc |-> "", msg |-> Msg("", <<>>),
                        invoked |-> inv]
        exn(e, m) == [kind |-> "raise", result |-> ToolResultError(m), exc |-> e, msg |-> m,
                      invoked |-> TRUE]
    IN IF ~tool.has_handler
       THEN ret(ToolResultError(Msg("Tool has no handler: ", <<tool.name>>)), FALSE)
       ELSE IF ~tool.enabled
       THEN ret(ToolResultError(Msg("Tool is disabled (execute): ", <<tool.name>>)), FALSE)
       ELSE CASE beh = "ok" -> ret(ToolResultText(Msg("handler output", <<tool.name>>), FALSE), TRUE)
              [] beh = "err_result" -> ret(ToolResultError(Msg("handler error", <<tool.name>>)), TRUE)
              [] beh = "err_empty" -> ret([content |-> <<>>, is_error |-> TRUE], TRUE)
              [] beh = "raise_value" -> exn("ValueError", Msg("bad value", <<>>))
              [] beh = "raise_other" -> exn("RuntimeError", Msg("boom", <<>>))
              [] beh = "raise_timeout" -> exn("TimeoutError", Msg("handler timeout", <<>>))
              [] OTHER -> [kind |-> "timeout", result |-> ToolResultError(Msg("", <<>>)),
                           exc |-> "TimeoutError", msg |-> Msg("", <<>>), invoked |-> TRUE]

\* what handle_execute makes of the awaited Tool.execute (its try/except around
\* wait_for and the outer except Exception):
\* [raised, exc, msg, result, success, error_message, invoked]
Done(r, ok, em, inv) ==
    [raised |-> FALSE, exc |-> "", msg |-> Msg("", <<>>), result |-> r,
     success |-> ok, error_message |-> em, invoked |-> inv]

TimeoutText(tool) ==
    Msg("Tool execution timed out after ", <<SecondsText(tool.timeout_seconds)>>)

ClassifyExecutionNoCatch(tool, x) ==
    CASE x.kind = "timeout" \/ (x.kind = "raise" /\ x.exc = "TimeoutError") ->
           Done(ToolResultError(TimeoutText(tool)), FALSE, Some(TimeoutText(tool)), x.invoked)
      [] x.kind = "raise" ->
           [raised |-> TRUE, exc |-> x.exc, msg |-> x.msg, result |-> x.result,
            success |-> FALSE, error_message |-> Some(x.msg), invoked |-> x.invoked]
      [] x.kind = "return" /\ ~x.result.is_error ->
           Done(x.result, TRUE, None, x.invoked)
      [] x.kind = "return" /\ x.result.content = <<>> ->
           [raised |-> TRUE, exc |-> "IndexError", msg |-> Msg("list index out of range", <<>>),
            result |-> x.result, success |-> FALSE,
            error_message |-> Some(Msg("list index out of range", <<>>)), invoked |-> x.invoked]
      [] OTHER ->
           Done(x.result, FALSE, Some(x.result.content[1].text), x.invoked)

ClassifyExecution(tool, x) ==
    CASE x.kind = "timeout" \/ (x.kind = "raise" /\ x.exc = "TimeoutError") ->
           Done(ToolResultError(TimeoutText(tool)), FALSE, Some(TimeoutText(tool)), x.invoked)
      [] x.kind = "raise" ->
           \* except Exception: error_message is str(e)
           Done(ToolResultError(Msg("Tool execution failed: ", <<x.msg.text>>)),
                FALSE, Some(x.msg), x.invoked)
      [] x.kind = "return" /\ ~x.result.is_error ->
           Done(x.result, TRUE, None, x.invoked)
      [] x.kind = "return" /\ x.result.content = <<>> ->
           \* result.content[0] raises IndexError, caught by except Exception
           Done(ToolResultError(Msg("Tool execution failed: ", <<"list index out of range">>)),
                FALSE, Some(Msg("list index out of range", <<>>)), x.invoked)
      [] OTHER ->
           Done(x.result, FALSE, Some(x.result.content[1].text), x.invoked)

\* the body of ToolHandler.handle_execute before its finally block
ExecuteBody(s, tool_name, beh) ==
    LET tool == SessionGetTool(s, tool_name)
        failed(m) == Done(ToolResultError(m), FALSE, Some(m), FALSE)
    IN IF tool = None
       THEN failed(Msg("Tool not found: ", <<tool_name>>))
       ELSE IF ~Get(tool).enabled
       THEN failed(Msg("Tool is disabled: ", <<tool_name>>))
       ELSE ClassifyExecution(Get(tool), ToolExecute(Get(tool), beh))

\* an event that reports every call as a success
ToolExecutedEventAlwaysOk(s, tool_name, b) ==
    [type |-> "ToolExecuted", session_id |-> s.id, tool_name |-> tool_name,
     success |-> TRUE, error_message |-> b.error_message]

\* the ToolExecutedEvent built in the finally block of handle_execute
ToolExecutedEvent(s, tool_name, b) ==
    [type |-> "ToolExecuted", session_id |-> s.id, tool_name |-> tool_name,
     success |-> b.success, error_message |-> b.error_message]

\* ToolHandler.handle_execute: the body, then the finally block that appends
\* one ToolExecuted event to the session: [raised, exc, msg, result, session, invoked]
HandleExecute(s, tool_name, beh) ==
    LET b == ExecuteBody(s, tool_name, beh)
    IN [raised |-> b.raised, exc |-> b.exc, msg |-> b.msg, result |-> b.result,
        session |-> SessionAddEvent(s, ToolExecutedEvent(s, tool_name, b)),
        invoked |-> b.invoked]

\* Tool.execute with the arguments of the call: a handler that returns
\* normally answers from its own input_data
Arguments == {"x", "y"}
ToolExecuteWith(tool, input_data, beh) ==
    LET x == ToolExecute(tool, beh)
    IN IF x.kind = "return" /\ x.invoked /\ beh = "ok"
       THEN [x EXCEPT !.result = ToolResultText(Msg("echo", <<input_data>>), FALSE)]
       ELSE x

\* ------------------------------------------------------------------ telemetry
\* the global telemetry client: "none" when get_telemetry_client() returns None,
\* "ok" when the SDK works, else the SDK call that raises
TelemetryModes == {"none", "ok", "span_fails", "span_exit_fails", "metric_fails"}

\* a span whose failure on entry reaches the caller
TelemetrySpanEnterPropagating(tel) ==
    IF tel = "span_fails"
    THEN [raised |-> TRUE, exc |-> "RuntimeError", msg |-> Msg("span failed", <<>>)]
    ELSE [raised |-> FALSE, exc |-> "", msg |-> Msg("", <<>>)]

\* MCPTelemetryClient.span up to its yield (span_context.__enter__): a failure
\* of the SDK is caught and logged, and the span yields None
TelemetrySpanEnter(tel) ==
    IF tel = "span_fails"
    THEN [raised |-> FALSE, exc |-> "", msg |-> Msg("Failed to create span", <<>>)]
    ELSE [raised |-> FALSE, exc |-> "", msg |-> Msg("", <<>>)]

\* MCPTelemetryClient.span after its yield (span_context.__exit__): a failure
\* of the SDK makes the generator yield again, which raises RuntimeError
TelemetrySpanExit(tel) ==
    IF tel = "span_exit_fails"
    THEN [raised |-> TRUE, exc |-> "RuntimeError", msg |-> Msg("generator didn't stop", <<>>)]
    ELSE [raised |-> FALSE, exc |-> "", msg |-> Msg("", <<>>)]

\* MCPTelemetryClient.record_tool_call: increment_counter and record_histogram
\* catch and log what the SDK raises
RecordToolCall(tel) ==
    IF tel = "metric_fails"
    THEN [raised |-> FALSE, exc |-> "", msg |-> Msg("Failed to record metric", <<>>)]
    ELSE [raised |-> FALSE, exc |-> "", msg |-> Msg("", <<>>)]

\* the finally block of handle_execute up to the event: the span exit runs
\* under contextlib.suppress(Exception), record_tool_call does not
FinallyTelemetry(tel) ==
    IF tel = "none" THEN [raised |-> FALSE, exc |-> "", msg |-> Msg("", <<>>)]
    ELSE IF TelemetrySpanExit(tel).raised
    THEN RecordToolCall(tel)   \* suppressed, the block goes on
    ELSE RecordToolCall(tel)

\* ------------------------------------------------------- resources and prompts
ReaderBehaviours == {"ok", "raise_value", "raise_other"}

\* Resource.read: [raised, exc, msg, content]; the reader is handed str(self.uri)
ResourceRead(r, beh) ==
    LET ret(c) == [raised |-> FALSE, exc |-> "", msg |-> Msg("", <<>>), content |-> c]
        exn(e, m) == [raised |-> TRUE, exc |-> e, msg |-> m, content |-> [uri |-> r.uri, text |-> ""]]
    IN IF ~r.has_reader
       THEN ret([uri |-> r.uri, text |-> "No reader configured for resource"])
       ELSE CASE beh = "ok" -> ret([uri |-> r.uri, text |-> "reader output"])
              [] beh = "raise_value" -> exn("ValueError", Msg("bad value", <<>>))
              [] OTHER -> exn("RuntimeError", Msg("boom", <<>>))

\* a generation that hands the arguments to the generator unchecked
PromptGetMessagesUnchecked(p, args, beh) ==
    [raised |-> FALSE, exc |-> "", msg |-> Msg("", <<>>),
     messages |-> <<[role |-> "user", content |-> p.name]>>, generated |-> TRUE]

\* Prompt.get_messages: required arguments are checked first, in order
PromptGetMessages(p, args, beh) ==
    LET ret(m) == [raised |-> FALSE, exc |-> "", msg |-> Msg("", <<>>), messages |-> m,
                   generated |-> m # <<>>]
        exn(e, m, g) == [raised |-> TRUE, exc |-> e, msg |-> m, messages |-> <<>>, generated |-> g]
        missing == {i \in 1..Len(p.arguments) :
                      p.arguments[i].required /\ p.arguments[i].name \notin args}
    IN IF missing # {}
       THEN exn("ValueError",
                Msg("Missing required argument: ",
                    <<p.arguments[CHOOSE i \in missing : \A j \in missing : i <= j].name>>),
                FALSE)
       ELSE IF ~p.has_generator THEN ret(<<>>)
       ELSE CASE beh = "ok" -> ret(<<[role |-> "user", content |-> p.name]>>)
              [] beh = "raise_value" -> exn("ValueError", Msg("bad value", <<>>), TRUE)
              [] OTHER -> exn("RuntimeError", Msg("boom", <<>>), TRUE)

\* MCPLogLevel.from_string: lower-case, then the matching level or INFO
LogLevels == {"debug", "info", "notice", "warning", "error", "critical", "alert", "emergency"}
Lower(level) == IF level = "DEBUG" THEN "debug" ELSE level
LogLevelFromString(level) == IF Lower(level) \in LogLevels THEN Lower(level) ELSE "info"

\* ------------------------------------------------------------------- state
VARIABLES
    config,        \* Config.mcp: the enable_* capability flags
    session,       \* MCPServer._session (None or the Session)
    tool_handler,  \* MCPServer._tool_handler (None or the id of its session)
    running,       \* MCPServer._running
    pc,            \* run(): "idle" before it, "reading" in the loop, "exited" after it
    stdout,        \* the responses written, oldest first
    line,          \* the input line handled last (None before the first)
    dispatched,    \* whether _handle_request was called for that line
    outcome,       \* how the method handler ended for that line
    behaviour,     \* what the tool handler or prompt generator did when that line invoked one
    lastResp,      \* what _handle_request returned for that line (None: nothing)
    clock,         \* datetime.now(): a logical time
    linesRead,     \* lines read from stdin so far
    created,       \* Session.create calls so far
    regs,          \* registry operations done by the embedding code
    ops,           \* operations applied to the stand-alone Session
    call,          \* the operation applied to it last
    calls,         \* the handle_execute coroutines in flight, by call number
    invocations,   \* how often a tool handler function was invoked
    telemetry,     \* the global telemetry client (a TelemetryModes value)
    getters,       \* the threads inside Session.get_events: position and local copy
    returned,      \* the events get_events calls have returned, oldest first
    added,         \* events added to the queue by the producers of EventSpec
    lock,          \* Session._lock: 0 when free, else the thread that holds it
    threads,       \* the threads calling registry methods: position, call, return value
    log,           \* the registry changes done so far, oldest first (history)
    repository     \* one in-memory repository: its class and its dict

vars == <<config, session, tool_handler, running, pc, stdout, line, dispatched,
          outcome, behaviour, lastResp, clock, linesRead, created, regs, ops, call,
          calls, invocations, telemetry, getters, returned, added, lock, threads, log, repository>>

\* the state of the concurrent tool calls and of the event consumers
\* the state of the threads that work on the registries of one Session
regVars == <<lock, threads, log, repository>>

concVars == <<calls, invocations, telemetry, getters, returned, added, regVars>>

\* a handle_execute coroutine that has not started, a get_events thread outside a call
IdleCall ==
    [pc |-> "idle", tool_name |-> "", arguments |-> "", beh |-> "", tool |-> <<>>,
     handler |-> "none", steps |-> 0, raised |-> FALSE, result |-> <<>>]
IdleGetter == [pc |-> "idle", events |-> <<>>]

\* a thread outside every Session method
IdleThread == [pc |-> "idle", op |-> "none", arg |-> <<>>, ret |-> <<>>, called |-> 0]

\* nobody holds the lock of the session, nothing was registered
RegIdle ==
    /\ lock = 0
    /\ threads = [t \in 1..MaxThreads |-> IdleThread]
    /\ log = <<>>
    /\ repository = [kind |-> "none", items |-> <<>>]

\* no call in flight, no telemetry client, nobody reading the event queue
ConcIdle ==
    /\ calls = [i \in 1..MaxCalls |-> IdleCall]
    /\ invocations = 0
    /\ telemetry = "none"
    /\ getters = [g \in 1..MaxGetters |-> IdleGetter]
    /\ returned = <<>>
    /\ added = 0
    /\ RegIdle

serverVars == <<tool_handler, running, pc, stdout, dispatched, lastResp, linesRead, created, regs>>

\* --------------------------------------------------------- requests and lines
Configs ==
    {[tools |-> TRUE, resources |-> TRUE, prompts |-> TRUE, logging |-> TRUE, sampling |-> FALSE],
     [tools |-> FALSE, resources |-> TRUE, prompts |-> FALSE, logging |-> TRUE, sampling |-> TRUE]}

\* JSON ids: absent, the number 0, a string
Ids == {None, Some("0"), Some("abc")}

NoParams ==
    [isDict |-> TRUE, name |-> "", uri |-> <<>>, clientInfo |-> "absent",
     level |-> "absent", args |-> {}]

DispatchTable ==
    {"initialize", "notifications/initialized", "ping", "tools/list", "tools/call",
     "resources/list", "resources/templates/list", "resources/read", "prompts/list",
     "prompts/get", "logging/setLevel", "shutdown"}

Methods == DispatchTable \cup {"resources/subscribe", "bogus"}

ParamsFor(method) ==
    CASE method = "initialize" ->
           {[NoParams EXCEPT !.clientInfo = c] : c \in {"absent", "dict", "nondict"}}
           \cup {[NoParams EXCEPT !.isDict = FALSE]}
      [] method = "tools/call" ->
           {[NoParams EXCEPT !.name = n] : n \in {"", "echo", "bare", "ghost"}}
           \cup {[NoParams EXCEPT !.isDict = FALSE]}
      [] method = "resources/read" ->
           {[NoParams EXCEPT !.uri = u] : u \in RequestURIs \cup {<<>>}}
      [] method = "prompts/get" ->
           {[NoParams EXCEPT !.name = n, !.args = a] :
              n \in {"", "review", "ghost"}, a \in {{}, {"code"}}}
      [] method = "logging/setLevel" ->
           {[NoParams EXCEPT !.level = l] : l \in {"absent", "DEBUG", "bogus", "nonstring"}}
      [] OTHER -> {NoParams}

Requests ==
    UNION {{[jsonrpc |-> "2.0", id |-> i, method |-> m, params |-> p] :
              i \in Ids, p \in ParamsFor(m)} : m \in Methods}

BadVersionRequests ==
    {[jsonrpc |-> v, id |-> i, method |-> m, params |-> NoParams] :
       v \in {"1.0", "absent"}, i \in Ids, m \in {"initialize", "shutdown"}}

NoRequest == [jsonrpc |-> "", id |-> None, method |-> "", params |-> NoParams]

\* a line of stdin: what readline gave, its length after strip, what json.loads makes of it
Lines ==
    {[kind |-> "object", len |-> 1, req |-> r] : r \in Requests \cup BadVersionRequests}
    \cup {[kind |-> "object", len |-> n,
           req |-> [jsonrpc |-> "2.0", id |-> Some("abc"), method |-> "ping", params |-> NoParams]] :
            n \in {MAX_MESSAGE_SIZE, MAX_MESSAGE_SIZE + 1}}
    \cup {[kind |-> "object", len |-> MAX_MESSAGE_SIZE + 1,
           req |-> [jsonrpc |-> "2.0", id |-> Some("abc"), method |-> "shutdown", params |-> NoParams]],
          [kind |-> "garbage", len |-> MAX_MESSAGE_SIZE + 1, req |-> NoRequest]}
    \cup {[kind |-> k, len |-> 1, req |-> NoRequest] : k \in {"garbage", "nonobject"}}
    \cup {[kind |-> "blank", len |-> 0, req |-> NoRequest]}

EOFLine == [kind |-> "eof", len |-> 0, req |-> NoRequest]

\* ------------------------------------------------------------------ envelope
EmptyDict == [keys |-> {}]

\* MCPServer._make_error
MakeError(code, message) == [code |-> code, message |-> message]

\* MCPServer._make_response: result and error are optional
MakeResponse(request_id, result, error) ==
    [keys |-> {"jsonrpc"}
              \cup (IF request_id # None THEN {"id"} ELSE {})
              \cup (IF error # None THEN {"error"} ELSE {"result"}),
     id |-> request_id,
     error |-> error,
     result |-> IF error # None THEN None
                ELSE IF result # None THEN result ELSE Some(EmptyDict)]

\* how a method handler ended: it returned a result, raised, or _handle_request
\* returned early ("none": return None, "not_found": the else branch)
Returned(v) == [kind |-> "return", result |-> Some(v), exc |-> "", msg |-> Msg("", <<>>)]
Raised(e, m) == [kind |-> "raise", result |-> None, exc |-> e, msg |-> m]
EarlyNone == [kind |-> "none", result |-> None, exc |-> "", msg |-> Msg("", <<>>)]
NotFound(m) == [kind |-> "not_found", result |-> None, exc |-> "",
                msg |-> Msg("Method not found: ", <<m>>)]
NoOutcome == [kind |-> "", result |-> None, exc |-> "", msg |-> Msg("", <<>>)]

NotInitialized == Raised("ValueError", Msg("Session not initialized", <<>>))
NoGet == Raised("AttributeError", Msg("object has no attribute 'get'", <<>>))

\* ------------------------------------------------------------ method handlers
\* each sets outcome', session', tool_handler', clock', created'

\* the guard of _handle_initialize
SessionHeldNever == FALSE

SessionHeld == session # None

\* MCPServer._handle_initialize
HandleInitialize(params) ==
    IF SessionHeld
    THEN /\ outcome' = Raised("ValueError", Msg("Session already initialized", <<>>))
         /\ UNCHANGED <<session, tool_handler, clock, created>>
    ELSE IF ~params.isDict
    THEN /\ outcome' = NoGet
         /\ UNCHANGED <<session, tool_handler, clock, created>>
    ELSE LET s0 == SessionCreate(created + 1, config, clock)
             client == IF params.clientInfo = "dict"
                       THEN [name |-> "cli", version |-> "1.0"]
                       ELSE [name |-> "unknown", version |-> "unknown"]
             r == SessionInitialize(s0, client, clock + 1)
         IN IF params.clientInfo = "nondict"
            THEN \* client_info.get raises after self._session was assigned
                 /\ session' = Some(s0)
                 /\ created' = created + 1
                 /\ clock' = clock + 1
                 /\ outcome' = NoGet
                 /\ UNCHANGED tool_handler
            ELSE /\ session' = Some(r.session)
                 /\ created' = created + 1
                 /\ clock' = clock + 2
                 /\ IF r.raised
                    THEN outcome' = Raised(r.exc, r.msg) /\ UNCHANGED tool_handler
                    ELSE outcome' = Returned(r.result) /\ tool_handler' = Some(s0.id)

\* MCPServer._handle_ping
HandlePing ==
    /\ outcome' = Returned(EmptyDict)
    /\ UNCHANGED <<session, tool_handler, clock, created>>

\* MCPServer._handle_tools_list
HandleToolsList ==
    /\ outcome' = IF session = None THEN NotInitialized
                  ELSE Returned([keys |-> {"tools"},
                                 tools |-> [i \in 1..Len(Get(session).tools) |->
                                              SessionListTools(Get(session))[i].name]])
    /\ UNCHANGED <<session, tool_handler, clock, created>>

\* MCPServer._handle_tools_call
HandleToolsCall(params, beh) ==
    IF session = None \/ tool_handler = None
    THEN /\ outcome' = NotInitialized /\ behaviour' = ""
         /\ UNCHANGED <<session, tool_handler, clock, created>>
    ELSE IF ~params.isDict
    THEN /\ outcome' = NoGet /\ behaviour' = ""
         /\ UNCHANGED <<session, tool_handler, clock, created>>
    ELSE IF params.name = ""
    THEN /\ outcome' = Raised("ValueError", Msg("Tool name is required", <<>>))
         /\ behaviour' = ""
         /\ UNCHANGED <<session, tool_handler, clock, created>>
    ELSE LET h == HandleExecute(Get(session), params.name, beh)
         IN /\ session' = Some(h.session)
            /\ outcome' = IF h.raised THEN Raised(h.exc, h.msg)
                          ELSE Returned(ToolResultToDict(h.result))
            /\ behaviour' = IF h.invoked THEN beh ELSE ""
            /\ UNCHANGED <<tool_handler, clock, created>>

\* Resource.to_mcp_format / Resource.to_template_format (None when it is no template)
ResourceToMcpFormat(r) == [uri |-> r.uri]
ResourceToTemplateFormat(r) ==
    IF ~r.is_template \/ r.uri_template = None THEN None
    ELSE Some([uriTemplate |-> Get(r.uri_template)])

\* a filter that lets every resource into resources/list
IsPlainAny(r) == TRUE

IsPlain(r) == ~r.is_template
IsTemplate(r) == r.is_template
IsSome(o) == o # None

\* MCPServer._handle_resources_list
HandleResourcesList ==
    /\ outcome' =
         IF session = None THEN NotInitialized
         ELSE LET plain == SelectSeq(SessionListResources(Get(session)), IsPlain)
              IN Returned([keys |-> {"resources"},
                           resources |-> [i \in 1..Len(plain) |-> ResourceToMcpFormat(plain[i])]])
    /\ UNCHANGED <<session, tool_handler, clock, created>>

\* MCPServer._handle_resources_templates_list
HandleResourcesTemplatesList ==
    /\ outcome' =
         IF session = None THEN NotInitialized
         ELSE LET tpl == SelectSeq(SessionListResources(Get(session)), IsTemplate)
                  fmt == SelectSeq([i \in 1..Len(tpl) |-> ResourceToTemplateFormat(tpl[i])], IsSome)
              IN Returned([keys |-> {"resourceTemplates"},
                           resourceTemplates |-> [i \in 1..Len(fmt) |-> Get(fmt[i])]])
    /\ UNCHANGED <<session, tool_handler, clock, created>>

\* MCPServer._handle_resources_read
HandleResourcesRead(params, beh) ==
    /\ outcome' =
         IF session = None THEN NotInitialized
         ELSE IF ~params.isDict THEN NoGet
         ELSE IF params.uri = <<>>
         THEN Raised("ValueError", Msg("Resource URI is required", <<>>))
         ELSE LET resource == SessionGetResource(Get(session), params.uri)
                  c == ResourceRead(Get(resource), beh)
              IN IF resource = None
                 THEN Raised("ValueError", Msg("Resource not found: ", params.uri))
                 ELSE IF c.raised THEN Raised(c.exc, c.msg)
                 ELSE Returned([keys |-> {"contents"}, contents |-> <<c.content>>])
    /\ UNCHANGED <<session, tool_handler, clock, created>>

\* MCPServer._handle_prompts_list
HandlePromptsList ==
    /\ outcome' = IF session = None THEN NotInitialized
                  ELSE Returned([keys |-> {"prompts"},
                                 prompts |-> [i \in 1..Len(Get(session).prompts) |->
                                                SessionListPrompts(Get(session))[i].name]])
    /\ UNCHANGED <<session, tool_handler, clock, created>>

\* MCPServer._handle_prompts_get
HandlePromptsGet(params, beh) ==
    /\ outcome' =
         IF session = None THEN NotInitialized
         ELSE IF ~params.isDict THEN NoGet
         ELSE IF params.name = ""
         THEN Raised("ValueError", Msg("Prompt name is required", <<>>))
         ELSE LET prompt == SessionGetPrompt(Get(session), params.name)
                  m == PromptGetMessages(Get(prompt), params.args, beh)
              IN IF prompt = None
                 THEN Raised("ValueError", Msg("Prompt not found: ", <<params.name>>))
                 ELSE IF m.raised THEN Raised(m.exc, m.msg)
                 ELSE Returned([keys |-> {"messages"}, messages |-> m.messages])
    /\ behaviour' =
         IF session = None \/ ~params.isDict \/ params.name = "" THEN ""
         ELSE LET prompt == SessionGetPrompt(Get(session), params.name)
              IN IF prompt = None THEN ""
                 ELSE IF PromptGetMessages(Get(prompt), params.args, beh).generated
                 THEN beh ELSE ""
    /\ UNCHANGED <<session, tool_handler, clock, created>>

\* MCPServer._handle_logging_set_level
HandleLoggingSetLevel(params) ==
    /\ IF session = None
       THEN outcome' = NotInitialized /\ UNCHANGED session
       ELSE IF ~params.isDict \/ params.level = "nonstring"
       THEN outcome' = NoGet /\ UNCHANGED session
       ELSE /\ session' = Some(SessionSetLogLevel(Get(session),
                                 LogLevelFromString(IF params.level = "absent" THEN "info"
                                                    ELSE params.level)))
            /\ outcome' = Returned(EmptyDict)
    /\ UNCHANGED <<tool_handler, clock, created>>

\* ------------------------------------------------------------ request handling
IsNotification(req) == req.id = None

\* the else branch of the routing: METHOD_NOT_FOUND for a call
NotFoundResponseLoud(req, o) ==
    Some(MakeResponse(req.id, None, Some(MakeError(METHOD_NOT_FOUND, o.msg))))

NotFoundResponse(req, o) ==
    IF IsNotification(req) THEN None
    ELSE Some(MakeResponse(req.id, None, Some(MakeError(METHOD_NOT_FOUND, o.msg))))

\* the handler returned
ResultResponse(req, o) ==
    IF IsNotification(req) THEN None
    ELSE Some(MakeResponse(req.id, o.result, None))

\* except ValueError / except Exception
ErrorResponseLoud(req, o) ==
    IF o.exc = "ValueError"
    THEN Some(MakeResponse(req.id, None, Some(MakeError(INVALID_PARAMS, o.msg))))
    ELSE Some(MakeResponse(req.id, None, Some(MakeError(INTERNAL_ERROR, o.msg))))

ErrorResponseAllInternal(req, o) ==
    IF IsNotification(req) THEN None
    ELSE Some(MakeResponse(req.id, None, Some(MakeError(INTERNAL_ERROR, o.msg))))

ErrorResponse(req, o) ==
    IF IsNotification(req) THEN None
    ELSE IF o.exc = "ValueError"
    THEN Some(MakeResponse(req.id, None, Some(MakeError(INVALID_PARAMS, o.msg))))
    ELSE Some(MakeResponse(req.id, None, Some(MakeError(INTERNAL_ERROR, o.msg))))

\* MCPServer._handle_request after the routing: the response, or None
ResponseFor(req, o) ==
    CASE o.kind = "none" -> None
      [] o.kind = "not_found" -> NotFoundResponse(req, o)
      [] o.kind = "return" -> ResultResponse(req, o)
      [] OTHER -> ErrorResponse(req, o)

\* MCPServer._handle_request: route by method, then build the response
HandleRequest(req) ==
    /\ \/ /\ req.method = "initialize"
          /\ HandleInitialize(req.params)
          /\ behaviour' = "" /\ UNCHANGED running
       \/ /\ req.method = "notifications/initialized"
          /\ outcome' = EarlyNone
          /\ behaviour' = "" /\ UNCHANGED <<session, tool_handler, clock, created, running>>
       \/ /\ req.method = "ping"
          /\ HandlePing
          /\ behaviour' = "" /\ UNCHANGED running
       \/ /\ req.method = "tools/list"
          /\ HandleToolsList
          /\ behaviour' = "" /\ UNCHANGED running
       \/ /\ req.method = "tools/call"
          /\ \E beh \in HandlerBehaviours : HandleToolsCall(req.params, beh)
          /\ UNCHANGED running
       \/ /\ req.method = "resources/list"
          /\ HandleResourcesList
          /\ behaviour' = "" /\ UNCHANGED running
       \/ /\ req.method = "resources/templates/list"
          /\ HandleResourcesTemplatesList
          /\ behaviour' = "" /\ UNCHANGED running
       \/ /\ req.method = "resources/read"
          /\ \E beh \in ReaderBehaviours : HandleResourcesRead(req.params, beh)
          /\ behaviour' = "" /\ UNCHANGED running
       \/ /\ req.method = "prompts/list"
          /\ HandlePromptsList
          /\ behaviour' = "" /\ UNCHANGED running
       \/ /\ req.method = "prompts/get"
          /\ \E beh \in ReaderBehaviours : HandlePromptsGet(req.params, beh)
          /\ UNCHANGED running
       \/ /\ req.method = "logging/setLevel"
          /\ HandleLoggingSetLevel(req.params)
          /\ behaviour' = "" /\ UNCHANGED running
       \/ /\ req.method = "shutdown"
          /\ running' = FALSE
          /\ outcome' = Returned(EmptyDict)
          /\ behaviour' = "" /\ UNCHANGED <<session, tool_handler, clock, created>>
       \/ /\ req.method \notin DispatchTable
          /\ outcome' = NotFound(req.method)
          /\ behaviour' = "" /\ UNCHANGED <<session, tool_handler, clock, created, running>>
    /\ lastResp' = ResponseFor(req, outcome')

\* ---------------------------------------------------------------- run loop
\* a writer that puts the newest line first
WriteResponseFirst(response) == stdout' = <<response>> \o stdout

\* MCPServer._write_response
WriteResponse(response) == stdout' = Append(stdout, response)

\* a loop that leaves after a line it did not dispatch
LoopCheckLeavesOnSkip == pc' = IF running' /\ dispatched' THEN "reading" ELSE "exited"

\* a loop that never looks at the run flag
LoopCheckForever == pc' = "reading"

\* the while condition, evaluated after an iteration
LoopCheck == pc' = IF running' THEN "reading" ELSE "exited"

\* a version check that lets every envelope through
VersionOkAlways(req) == TRUE

\* the version check of the loop: request.get("jsonrpc") == JSONRPC_VERSION
VersionOk(req) == req.jsonrpc = JSONRPC_VERSION

\* a size check that lets every line through
TooLargeNever(l) == FALSE

\* len(line) > self.MAX_MESSAGE_SIZE, on the stripped line
TooLarge(l) == l.len > MAX_MESSAGE_SIZE

Skip == /\ dispatched' = FALSE
        /\ outcome' = NoOutcome
        /\ behaviour' = ""
        /\ lastResp' = None
        /\ UNCHANGED <<session, tool_handler, clock, created, running>>

\* MCPServer.run up to the loop
Run ==
    /\ pc = "idle"
    /\ running' = TRUE
    /\ pc' = "reading"
    /\ UNCHANGED <<concVars, config, session, tool_handler, stdout, line, dispatched, outcome,
                   behaviour, lastResp, clock, linesRead, created, regs, ops, call>>

\* readline gave "": EOF, the loop breaks
ReadEOF ==
    /\ pc = "reading"
    /\ line' = Some(EOFLine)
    /\ pc' = "exited"
    /\ Skip
    /\ UNCHANGED <<concVars, config, stdout, linesRead, regs, ops, call>>

\* one iteration of the loop on a line that was read
ReadLine(l) ==
    /\ pc = "reading"
    /\ linesRead < MaxLines
    /\ linesRead' = linesRead + 1
    /\ line' = Some(l)
    /\ \/ /\ l.kind = "blank"
          /\ Skip /\ UNCHANGED stdout
       \/ /\ l.kind # "blank" /\ TooLarge(l)
          /\ Skip /\ UNCHANGED stdout
       \/ /\ l.kind = "garbage" /\ ~TooLarge(l)
          /\ Skip
          /\ WriteResponse(MakeResponse(None, None,
                             Some(MakeError(PARSE_ERROR, Msg("Parse error: ", <<>>)))))
       \/ /\ l.kind = "nonobject" /\ ~TooLarge(l)
          \* request.get raises AttributeError: caught and logged by the loop
          /\ Skip /\ UNCHANGED stdout
       \/ /\ l.kind = "object" /\ ~TooLarge(l)
          /\ ~VersionOk(l.req)
          /\ Skip
          /\ WriteResponse(MakeResponse(l.req.id, None,
                             Some(MakeError(INVALID_REQUEST,
                                            Msg("Invalid JSON-RPC version", <<>>)))))
       \/ /\ l.kind = "object" /\ ~TooLarge(l)
          /\ VersionOk(l.req)
          /\ dispatched' = TRUE
          /\ HandleRequest(l.req)
          /\ IF lastResp' # None THEN WriteResponse(Get(lastResp')) ELSE UNCHANGED stdout
    /\ LoopCheck
    /\ UNCHANGED <<concVars, config, regs, ops, call>>

\* MCPServer.stop: from a signal handler, or from run_server's finally block
Stop ==
    /\ running' = FALSE
    /\ IF session # None
       THEN /\ session' = Some(SessionClose(Get(session), clock))
            /\ clock' = IF Get(session).state = "closed" THEN clock ELSE clock + 1
       ELSE UNCHANGED <<session, clock>>
    /\ UNCHANGED <<concVars, config, tool_handler, pc, stdout, line, dispatched, outcome,
                   behaviour, lastResp, linesRead, created, regs, ops, call>>

\* the embedding code registers and unregisters capabilities on server.session
RegisterTool(t) ==
    /\ session # None /\ regs < MaxRegs
    /\ session' = Some(SessionRegisterTool(Get(session), t))
    /\ regs' = regs + 1
    /\ UNCHANGED <<concVars, config, tool_handler, running, pc, stdout, line, dispatched, outcome,
                   behaviour, lastResp, clock, linesRead, created, ops, call>>

UnregisterTool(n) ==
    /\ session # None /\ regs < MaxRegs
    /\ session' = Some(SessionUnregisterTool(Get(session), n).session)
    /\ regs' = regs + 1
    /\ UNCHANGED <<concVars, config, tool_handler, running, pc, stdout, line, dispatched, outcome,
                   behaviour, lastResp, clock, linesRead, created, ops, call>>

RegisterResource(r) ==
    /\ session # None /\ regs < MaxRegs
    /\ session' = Some(SessionRegisterResource(Get(session), r))
    /\ regs' = regs + 1
    /\ UNCHANGED <<concVars, config, tool_handler, running, pc, stdout, line, dispatched, outcome,
                   behaviour, lastResp, clock, linesRead, created, ops, call>>

RegisterPrompt(p) ==
    /\ session # None /\ regs < MaxRegs
    /\ session' = Some(SessionRegisterPrompt(Get(session), p))
    /\ regs' = regs + 1
    /\ UNCHANGED <<concVars, config, tool_handler, running, pc, stdout, line, dispatched, outcome,
                   behaviour, lastResp, clock, linesRead, created, ops, call>>

NoCall == [op |-> "none", client |-> [name |-> "", version |-> ""]]

\* MCPServer.__init__
Init ==
    /\ config \in Configs
    /\ ConcIdle
    /\ session = None
    /\ tool_handler = None
    /\ running = FALSE
    /\ pc = "idle"
    /\ stdout = <<>>
    /\ line = None
    /\ dispatched = FALSE
    /\ outcome = NoOutcome
    /\ behaviour = ""
    /\ lastResp = None
    /\ clock = 1
    /\ linesRead = 0
    /\ created = 0
    /\ regs = 0
    /\ ops = 0
    /\ call = NoCall

Next ==
    \/ Run
    \/ ReadEOF
    \/ \E l \in Lines : ReadLine(l)
    \/ Stop
    \/ \E t \in ToolCatalogue : RegisterTool(t)
    \/ \E n \in ToolNames : UnregisterTool(n)
    \/ \E r \in ResourceCatalogue : RegisterResource(r)
    \/ \E p \in PromptCatalogue : RegisterPrompt(p)

Spec == Init /\ [][Next]_vars

\* ------------------------------------------- the handshake under every configuration
\* Config.mcp with every combination of the enable_* flags
AllConfigs ==
    [tools : BOOLEAN, resources : BOOLEAN, prompts : BOOLEAN, logging : BOOLEAN,
     sampling : BOOLEAN]

\* MCPServer.__init__ with any of them
HandshakeInit ==
    /\ config \in AllConfigs
    /\ ConcIdle
    /\ session = None
    /\ tool_handler = None
    /\ running = FALSE
    /\ pc = "idle"
    /\ stdout = <<>>
    /\ line = None
    /\ dispatched = FALSE
    /\ outcome = NoOutcome
    /\ behaviour = ""
    /\ lastResp = None
    /\ clock = 1
    /\ linesRead = 0
    /\ created = 0
    /\ regs = 0
    /\ ops = 0
    /\ call = NoCall

\* the run loop and stop(), without an embedding program that registers anything
HandshakeNext ==
    \/ Run
    \/ ReadEOF
    \/ \E l \in Lines : ReadLine(l)
    \/ Stop

HandshakeSpec == HandshakeInit /\ [][HandshakeNext]_vars

\* ---------------------------------------------------- the server under run_server
\* a finally block that forgets server.stop()
RunServerFinallyNoStop ==
    /\ pc = "exited"
    /\ pc' = "stopped"
    /\ UNCHANGED <<concVars, config, session, tool_handler, running, stdout, line, dispatched,
                   outcome, behaviour, lastResp, clock, linesRead, created, regs, ops, call>>

\* run_server's finally block, entered when server.run() has returned: the telemetry
\* calls before it swallow their failures, then server.stop() runs
RunServerFinally ==
    /\ pc = "exited"
    /\ pc' = "stopped"
    /\ running' = FALSE
    /\ IF session # None
       THEN /\ session' = Some(SessionClose(Get(session), clock))
            /\ clock' = IF Get(session).state = "closed" THEN clock ELSE clock + 1
       ELSE UNCHANGED <<session, clock>>
    /\ UNCHANGED <<concVars, config, tool_handler, stdout, line, dispatched, outcome,
                   behaviour, lastResp, linesRead, created, regs, ops, call>>

ServerNext ==
    \/ Next
    \/ RunServerFinally

\* run_server awaits server.run() and then always executes its finally block
ServerSpec == Init /\ [][ServerNext]_vars /\ WF_vars(RunServerFinally)

\* ------------------------------------------------- the Session aggregate alone
\* a Session as a unit test holds it: built by Session.create, or by the dataclass
\* constructor, which takes any state
SessionInit ==
    /\ config \in Configs
    /\ ConcIdle
    /\ \E st \in SessionStates :
         session = Some([SessionCreate(1, config, 1) EXCEPT !.state = st])
    /\ tool_handler = None
    /\ running = FALSE
    /\ pc = "idle"
    /\ stdout = <<>>
    /\ line = None
    /\ dispatched = FALSE
    /\ outcome = NoOutcome
    /\ behaviour = ""
    /\ lastResp = None
    /\ clock = 2
    /\ linesRead = 0
    /\ created = 1
    /\ regs = 0
    /\ ops = 0
    /\ call = NoCall

\* Session.initialize(client_info)
SessInitialize(c) ==
    /\ ops < MaxOps
    /\ LET r == SessionInitialize(Get(session), c, clock)
       IN /\ session' = Some(r.session)
          /\ outcome' = IF r.raised THEN Raised(r.exc, r.msg) ELSE Returned(r.result)
    /\ call' = [op |-> "initialize", client |-> c]
    /\ ops' = ops + 1
    /\ clock' = clock + 1
    /\ UNCHANGED <<concVars, config, serverVars, line, behaviour>>

\* Session.close()
SessClose ==
    /\ ops < MaxOps
    /\ session' = Some(SessionClose(Get(session), clock))
    /\ outcome' = Returned(EmptyDict)
    /\ call' = [NoCall EXCEPT !.op = "close"]
    /\ ops' = ops + 1
    /\ clock' = clock + 1
    /\ UNCHANGED <<concVars, config, serverVars, line, behaviour>>

\* Session.get_events(): copy, then clear
SessGetEvents ==
    /\ ops < MaxOps
    /\ session' = Some([Get(session) EXCEPT !.events = <<>>])
    /\ outcome' = Returned([keys |-> {"events"}, events |-> Get(session).events])
    /\ call' = [NoCall EXCEPT !.op = "get_events"]
    /\ ops' = ops + 1
    /\ clock' = clock + 1
    /\ UNCHANGED <<concVars, config, serverVars, line, behaviour>>

\* a registry method or set_log_level called on the Session: none of them looks at
\* the state
SessRegistry ==
    /\ ops < MaxOps
    /\ \/ \E t \in ToolCatalogue :
            /\ session' = Some(SessionRegisterTool(Get(session), t))
            /\ call' = [NoCall EXCEPT !.op = "register_tool"]
       \/ \E n \in ToolNames :
            /\ session' = Some(SessionUnregisterTool(Get(session), n).session)
            /\ call' = [NoCall EXCEPT !.op = "unregister_tool"]
       \/ \E r \in ResourceCatalogue :
            /\ session' = Some(SessionRegisterResource(Get(session), r))
            /\ call' = [NoCall EXCEPT !.op = "register_resource"]
       \/ \E p \in PromptCatalogue :
            /\ session' = Some(SessionRegisterPrompt(Get(session), p))
            /\ call' = [NoCall EXCEPT !.op = "register_prompt"]
       \/ \E l \in LogLevels :
            /\ session' = Some(SessionSetLogLevel(Get(session), l))
            /\ call' = [NoCall EXCEPT !.op = "set_log_level"]
    /\ outcome' = Returned(EmptyDict)
    /\ ops' = ops + 1
    /\ UNCHANGED <<concVars, config, serverVars, line, behaviour, clock>>

SessionNext ==
    \/ \E c \in Clients : SessInitialize(c)
    \/ SessClose
    \/ SessGetEvents
    \/ SessRegistry

SessionSpec == SessionInit /\ [][SessionNext]_vars

\* ------------------------------------------- concurrent calls of handle_execute
\* asyncio.wait_for at its timeout cancels nothing and lets the handler run on
CancelTargetsNone(i) == {}

\* a timeout that cancels the handler tasks of all calls in flight
CancelTargetsAll(i) == 1..MaxCalls

\* asyncio.wait_for at its timeout cancels the task of the coroutine it awaits:
\* the handler of this call
CancelTargets(i) == {i}

\* the finally block of handle_execute for call i, whose coroutine state is c and
\* whose body ended as b: telemetry, then one ToolExecuted event; the handler
\* tasks of the calls in cancelled are cancelled
CompleteCall(i, c, b, cancelled) ==
    LET f == FinallyTelemetry(telemetry)
        s == Get(session)
        cancel(x) == IF x.handler = "running" THEN [x EXCEPT !.handler = "cancelled"] ELSE x
    IN /\ session' = Some(IF f.raised THEN s
                          ELSE SessionAddEvent(s, ToolExecutedEvent(s, c.tool_name, b)))
       /\ calls' = [j \in 1..MaxCalls |->
                      IF j = i
                      THEN [(IF i \in cancelled THEN cancel(c) ELSE c) EXCEPT
                              !.pc = "done",
                              !.raised = b.raised \/ f.raised,
                              !.result = IF b.raised \/ f.raised THEN None ELSE Some(b.result)]
                      ELSE IF j \in cancelled THEN cancel(calls[j]) ELSE calls[j]]

\* the other variables of a step of ToolSpec
ToolFrame ==
    UNCHANGED <<config, tool_handler, running, pc, stdout, line, dispatched, outcome,
                behaviour, lastResp, clock, linesRead, created, regs, ops, call,
                telemetry, getters, returned, added, regVars>>

\* handle_execute is called: span entry, tool lookup, and either an immediate
\* result (not found, disabled, no handler) or the handler is invoked under
\* wait_for and the coroutine is suspended
CallStart(i, tool_name, arguments, beh) ==
    /\ calls[i].pc = "idle"
    /\ \A j \in 1..(i - 1) : calls[j].pc # "idle"
    /\ LET s == Get(session)
           enter == TelemetrySpanEnter(telemetry)
           tool == SessionGetTool(s, tool_name)
           awaits == tool # None /\ Get(tool).enabled /\ Get(tool).has_handler
           c == [IdleCall EXCEPT !.tool_name = tool_name, !.arguments = arguments,
                                 !.tool = tool]
       IN IF telemetry # "none" /\ enter.raised
          THEN /\ beh = ""
               /\ CompleteCall(i, c,
                    Done(ToolResultError(Msg("Tool execution failed: ", <<enter.msg.text>>)),
                         FALSE, Some(enter.msg), FALSE), {})
               /\ UNCHANGED invocations
          ELSE IF ~awaits
          THEN /\ beh = ""
               /\ CompleteCall(i, c, ExecuteBody(s, tool_name, beh), {})
               /\ UNCHANGED invocations
          ELSE /\ beh \in HandlerBehaviours
               /\ calls' = [calls EXCEPT ![i] = [c EXCEPT !.pc = "waiting", !.beh = beh,
                                                          !.handler = "running"]]
               /\ invocations' = invocations + 1
               /\ UNCHANGED session
    /\ ToolFrame

\* a running handler task takes a step of its own
HandlerStep(i) ==
    /\ calls[i].handler = "running"
    /\ calls[i].steps < MaxSteps
    /\ calls' = [calls EXCEPT ![i].steps = @ + 1]
    /\ UNCHANGED <<session, invocations>>
    /\ ToolFrame

\* the handler returns or raises before the timeout: wait_for hands it on
HandlerFinish(i) ==
    /\ calls[i].pc = "waiting" /\ calls[i].handler = "running"
    /\ calls[i].beh # "slow"
    /\ LET c == calls[i]
           tool == Get(c.tool)
       IN CompleteCall(i, [c EXCEPT !.handler = "finished"],
                       ClassifyExecution(tool, ToolExecuteWith(tool, c.arguments, c.beh)), {})
    /\ UNCHANGED invocations
    /\ ToolFrame

\* timeout_seconds pass with the handler still running: wait_for cancels it
\* and raises TimeoutError
Timeout(i) ==
    /\ calls[i].pc = "waiting" /\ calls[i].handler = "running"
    /\ calls[i].beh = "slow"
    /\ LET c == calls[i]
           tool == Get(c.tool)
       IN CompleteCall(i, c, ClassifyExecution(tool, ToolExecuteWith(tool, c.arguments, c.beh)),
                       CancelTargets(i))
    /\ UNCHANGED invocations
    /\ ToolFrame

\* a ToolHandler on an initialized session with two registered tools
ToolInit ==
    /\ config \in Configs
    /\ \E t \in {x \in ToolCatalogue : x.name = "echo"}, u \in {x \in ToolCatalogue : x.name = "bare"} :
         session = Some(SessionRegisterTool(SessionRegisterTool(
                     SessionInitialize(SessionCreate(1, config, 1),
                                       [name |-> "unknown", version |-> "unknown"], 2).session,
                     t), u))
    /\ tool_handler = Some(1)
    /\ running = FALSE
    /\ pc = "idle"
    /\ stdout = <<>>
    /\ line = None
    /\ dispatched = FALSE
    /\ outcome = NoOutcome
    /\ behaviour = ""
    /\ lastResp = None
    /\ clock = 3
    /\ linesRead = 0
    /\ created = 1
    /\ regs = 0
    /\ ops = 0
    /\ call = NoCall
    /\ calls = [i \in 1..MaxCalls |-> IdleCall]
    /\ invocations = 0
    /\ telemetry \in TelemetryModes
    /\ getters = [g \in 1..MaxGetters |-> IdleGetter]
    /\ returned = <<>>
    /\ added = 0
    /\ RegIdle

ToolNext ==
    \/ \E i \in 1..MaxCalls, n \in ToolNames \cup {"ghost"}, a \in Arguments,
          beh \in HandlerBehaviours \cup {""} : CallStart(i, n, a, beh)
    \/ \E i \in 1..MaxCalls : HandlerStep(i)
    \/ \E i \in 1..MaxCalls : HandlerFinish(i)
    \/ \E i \in 1..MaxCalls : Timeout(i)

ToolSpec == ToolInit /\ [][ToolNext]_vars

\* ------------------------------- the run loop around an awaited tools/call
\* the lines that reach _handle_tools_call's await of handle_execute
ToolsCallLines ==
    {l \in Lines : /\ l.kind = "object" /\ ~TooLarge(l) /\ VersionOk(l.req)
                   /\ l.req.method = "tools/call"
                   /\ l.req.params.isDict /\ l.req.params.name # ""}

\* run(): readline returned a tools/call line; the loop parses it and awaits
\* _handle_request, which awaits _handle_tools_call
LoopRead(l) ==
    /\ pc = "reading"
    /\ linesRead < MaxLines /\ linesRead < MaxCalls
    /\ linesRead' = linesRead + 1
    /\ line' = Some(l)
    /\ dispatched' = TRUE
    /\ pc' = "awaiting"
    /\ outcome' = NoOutcome /\ behaviour' = "" /\ lastResp' = None
    /\ UNCHANGED <<concVars, config, session, tool_handler, running, stdout, clock,
                   created, regs, ops, call>>

\* _handle_tools_call awaits handle_execute for the line read last
LoopDispatch(arguments, beh) ==
    /\ pc = "awaiting"
    /\ calls[linesRead].pc = "idle"
    /\ CallStart(linesRead, Get(line).req.params.name, arguments, beh)

\* handle_execute returned: _handle_request builds the response, the loop writes
\* it and evaluates its while condition
LoopResume ==
    /\ pc = "awaiting"
    /\ calls[linesRead].pc = "done"
    /\ LET c == calls[linesRead]
           o == IF c.raised THEN Raised("RuntimeError", Msg("", <<>>))
                ELSE Returned(ToolResultToDict(Get(c.result)))
       IN /\ outcome' = o
          /\ lastResp' = ResponseFor(Get(line).req, o)
    /\ IF lastResp' # None THEN WriteResponse(Get(lastResp')) ELSE UNCHANGED stdout
    /\ UNCHANGED running
    /\ LoopCheck
    /\ UNCHANGED <<concVars, config, session, tool_handler, line, dispatched, behaviour,
                   clock, linesRead, created, regs, ops, call>>

LoopNext ==
    \/ Run
    \/ ReadEOF
    \/ \E l \in ToolsCallLines : LoopRead(l)
    \/ \E a \in Arguments, beh \in HandlerBehaviours \cup {""} : LoopDispatch(a, beh)
    \/ \E i \in 1..MaxCalls : HandlerStep(i)
    \/ \E i \in 1..MaxCalls : HandlerFinish(i)
    \/ \E i \in 1..MaxCalls : Timeout(i)
    \/ LoopResume

LoopSpec == ToolInit /\ [][LoopNext]_vars

\* ------------------------------------------- the event queue under threads
\* _add_event and get_events take no lock: a producer (the event loop thread
\* in the finally block of handle_execute, or the signal handler in stop())
\* runs between the two statements of a get_events call of another thread
EventFrame ==
    UNCHANGED <<config, tool_handler, running, pc, stdout, line, dispatched, outcome,
                behaviour, lastResp, clock, linesRead, created, regs, ops, call,
                calls, invocations, telemetry, regVars>>

\* DomainEvent.event_id: the n-th event a producer adds
ProducedEvent(s, n) ==
    [event_id |-> n] @@
    ToolExecutedEvent(s, "echo", Done(ToolResultText(Msg("echo", <<"x">>), FALSE), TRUE, None, TRUE))

\* Session._add_event: self._events.append(event)
AddEvent ==
    /\ added < MaxEvents
    /\ added' = added + 1
    /\ session' = Some(SessionAddEvent(Get(session), ProducedEvent(Get(session), added + 1)))
    /\ UNCHANGED <<getters, returned>>
    /\ EventFrame

\* Session.get_events, first statement: events = self._events.copy()
GetEventsCopy(g) ==
    /\ getters[g].pc = "idle"
    /\ getters' = [getters EXCEPT ![g] = [pc |-> "copied", events |-> Get(session).events]]
    /\ UNCHANGED <<session, returned, added>>
    /\ EventFrame

\* Session.get_events, second statement and return: self._events.clear(); return events
GetEventsClear(g) ==
    /\ getters[g].pc = "copied"
    /\ session' = Some([Get(session) EXCEPT !.events = <<>>])
    /\ returned' = returned \o getters[g].events
    /\ getters' = [getters EXCEPT ![g] = IdleGetter]
    /\ UNCHANGED added
    /\ EventFrame

\* a Session right after Session.create, its SessionCreated event in the queue
EventInit ==
    /\ config \in Configs
    /\ session = Some(SessionCreate(1, config, 1))
    /\ tool_handler = None
    /\ running = FALSE
    /\ pc = "idle"
    /\ stdout = <<>>
    /\ line = None
    /\ dispatched = FALSE
    /\ outcome = NoOutcome
    /\ behaviour = ""
    /\ lastResp = None
    /\ clock = 2
    /\ linesRead = 0
    /\ created = 1
    /\ regs = 0
    /\ ops = 0
    /\ call = NoCall
    /\ ConcIdle

EventNext ==
    \/ AddEvent
    \/ \E g \in 1..MaxGetters : GetEventsCopy(g)
    \/ \E g \in 1..MaxGetters : GetEventsClear(g)

EventSpec == EventInit /\ [][EventNext]_vars

\* ------------------------------------- the registries of one Session under threads
\* resources the threads register: a plain one, two templates of which the second
\* matches every URI, and a template without braces under the URI of the plain one
RegistryResources ==
    {ResourceCreate(<<"a", "b">>, TRUE),
     ResourceCreate(<<"a", "{", "}">>, TRUE),
     ResourceCreate(<<"{", "}">>, FALSE),
     ResourceTemplate(<<"a", "b">>, FALSE)}

\* URIs the threads look up
RegistryURIs == RequestURIs \cup {<<"a", "b", "c">>}

\* a list method that hands out the live view of the dict instead of a new list
ListView(which, s) == [kind |-> "view", which |-> which, items |-> <<>>]

\* list(self.tools.values()) and its siblings: a new list object
ListCopy(which, s) ==
    [kind |-> "copy", which |-> which,
     items |-> IF which = "tools" THEN SessionListTools(s)
               ELSE IF which = "resources" THEN SessionListResources(s)
               ELSE SessionListPrompts(s)]

\* what iterating a returned list yields when the session is s
Items(l, s) == IF l.kind = "view" THEN DictValues(s[l.which]) ELSE l.items

\* the other variables of a step of RegistrySpec
RegFrame ==
    UNCHANGED <<config, tool_handler, running, pc, stdout, line, dispatched, outcome,
                behaviour, lastResp, clock, linesRead, created, regs, call,
                calls, invocations, telemetry, getters, returned, added, repository>>

\* a thread calls a method of the session and arrives at `with self._lock`;
\* called remembers how many registry changes were complete at that moment
MethodCall(t, op, arg) ==
    /\ threads[t].pc \in {"idle", "done"}
    /\ ops < MaxRegistryOps
    /\ threads' = [threads EXCEPT ![t] = [pc |-> "waiting", op |-> op, arg |-> arg,
                                          ret |-> <<>>, called |-> Len(log)]]
    /\ ops' = ops + 1
    /\ UNCHANGED <<session, log, lock>>
    /\ RegFrame

\* the lock is free and the thread enters the with block
AcquireLock(t) ==
    /\ threads[t].pc = "waiting"
    /\ lock = 0
    /\ lock' = t
    /\ threads' = [threads EXCEPT ![t].pc = "locked"]
    /\ UNCHANGED <<session, log, ops>>
    /\ RegFrame

\* the thread holds the lock and is about to run the body of method op
InBody(t, op) == lock = t /\ threads[t].pc = "locked" /\ threads[t].op = op

\* the method returns ret and the with block releases the lock
Leave(t, ret) ==
    /\ lock' = 0
    /\ threads' = [threads EXCEPT ![t].pc = "done", ![t].ret = ret]
    /\ UNCHANGED ops
    /\ RegFrame

\* a registry change enters the history
Logged(t) == log' = Append(log, [op |-> threads[t].op, arg |-> threads[t].arg])

ThreadRegisterTool(t) ==
    /\ InBody(t, "register_tool")
    /\ session' = Some(SessionRegisterTool(Get(session), threads[t].arg))
    /\ Logged(t)
    /\ Leave(t, None)

ThreadUnregisterTool(t) ==
    /\ InBody(t, "unregister_tool")
    /\ LET r == SessionUnregisterTool(Get(session), threads[t].arg)
       IN /\ session' = Some(r.session)
          /\ Leave(t, r.ret)
    /\ Logged(t)

ThreadGetTool(t) ==
    /\ InBody(t, "get_tool")
    /\ Leave(t, SessionGetTool(Get(session), threads[t].arg))
    /\ UNCHANGED <<session, log>>

ThreadListTools(t) ==
    /\ InBody(t, "list_tools")
    /\ Leave(t, ListCopy("tools", Get(session)))
    /\ UNCHANGED <<session, log>>

ThreadRegisterResource(t) ==
    /\ InBody(t, "register_resource")
    /\ session' = Some(SessionRegisterResource(Get(session), threads[t].arg))
    /\ Logged(t)
    /\ Leave(t, None)

ThreadGetResource(t) ==
    /\ InBody(t, "get_resource")
    /\ Leave(t, SessionGetResource(Get(session), threads[t].arg))
    /\ UNCHANGED <<session, log>>

ThreadListResources(t) ==
    /\ InBody(t, "list_resources")
    /\ Leave(t, ListCopy("resources", Get(session)))
    /\ UNCHANGED <<session, log>>

ThreadRegisterPrompt(t) ==
    /\ InBody(t, "register_prompt")
    /\ session' = Some(SessionRegisterPrompt(Get(session), threads[t].arg))
    /\ Logged(t)
    /\ Leave(t, None)

ThreadListPrompts(t) ==
    /\ InBody(t, "list_prompts")
    /\ Leave(t, ListCopy("prompts", Get(session)))
    /\ UNCHANGED <<session, log>>

\* an initialized session with empty registries, shared by the threads
RegistryInit ==
    /\ config \in {c \in Configs : c.tools /\ c.resources /\ c.prompts}
    /\ session = Some(SessionInitialize(SessionCreate(1, config, 1),
                                        [name |-> "unknown", version |-> "unknown"], 2).session)
    /\ tool_handler = None
    /\ running = FALSE
    /\ pc = "idle"
    /\ stdout = <<>>
    /\ line = None
    /\ dispatched = FALSE
    /\ outcome = NoOutcome
    /\ behaviour = ""
    /\ lastResp = None
    /\ clock = 3
    /\ linesRead = 0
    /\ created = 1
    /\ regs = 0
    /\ ops = 0
    /\ call = NoCall
    /\ ConcIdle

RegistryNext ==
    \E t \in 1..MaxThreads :
        \/ \E tool \in ToolCatalogue : MethodCall(t, "register_tool", tool)
        \/ \E n \in ToolNames : MethodCall(t, "unregister_tool", n)
        \/ \E n \in ToolNames : MethodCall(t, "get_tool", n)
        \/ MethodCall(t, "list_tools", <<>>)
        \/ \E r \in RegistryResources : MethodCall(t, "register_resource", r)
        \/ \E u \in RegistryURIs : MethodCall(t, "get_resource", u)
        \/ MethodCall(t, "list_resources", <<>>)
        \/ \E p \in PromptCatalogue : MethodCall(t, "register_prompt", p)
        \/ MethodCall(t, "list_prompts", <<>>)
        \/ AcquireLock(t)
        \/ ThreadRegisterTool(t)
        \/ ThreadUnregisterTool(t)
        \/ ThreadGetTool(t)
        \/ ThreadListTools(t)
        \/ ThreadRegisterResource(t)
        \/ ThreadGetResource(t)
        \/ ThreadListResources(t)
        \/ ThreadRegisterPrompt(t)
        \/ ThreadListPrompts(t)

RegistrySpec == RegistryInit /\ [][RegistryNext]_vars

\* ------------------------------------- initialize and close under threads
\* Session.initialize up to `self.state = SessionState.INITIALIZING`: the guard,
\* then the first assignment; the lock stays held
ThreadInitializeBegin(t) ==
    /\ InBody(t, "initialize")
    /\ IF SessionInitialize(Get(session), threads[t].arg, clock).raised
       THEN /\ Leave(t, "ValueError")
            /\ UNCHANGED <<session, log>>
       ELSE /\ session' = Some([Get(session) EXCEPT !.state = "initializing"])
            /\ threads' = [threads EXCEPT ![t].pc = "midway"]
            /\ UNCHANGED <<lock, log, ops>>
            /\ RegFrame

\* the rest of Session.initialize: client_info, initialized_at, READY, the event
ThreadInitializeEnd(t) ==
    /\ lock = t /\ threads[t].pc = "midway" /\ threads[t].op = "initialize"
    /\ session' = Some(SessionInitialize(Get(session), threads[t].arg, clock).session)
    /\ Logged(t)
    /\ Leave(t, "ok")

\* Session.close up to `self.state = SessionState.CLOSING`
ThreadCloseBegin(t) ==
    /\ InBody(t, "close")
    /\ IF Get(session).state = "closed"
       THEN /\ Leave(t, "ok")
            /\ UNCHANGED <<session, log>>
       ELSE /\ session' = Some([Get(session) EXCEPT !.state = "closing"])
            /\ threads' = [threads EXCEPT ![t].pc = "midway"]
            /\ UNCHANGED <<lock, log, ops>>
            /\ RegFrame

\* the rest of Session.close: closed_at, CLOSED, the event
ThreadCloseEnd(t) ==
    /\ lock = t /\ threads[t].pc = "midway" /\ threads[t].op = "close"
    /\ session' = Some(SessionClose(Get(session), clock))
    /\ Logged(t)
    /\ Leave(t, "ok")

\* a reader of the state that takes no lock: Session.to_dict()["state"],
\* Session.is_ready, Session.is_closed
ReadState(t, op, value) ==
    /\ threads[t].pc \in {"idle", "done"}
    /\ ops < MaxRegistryOps
    /\ threads' = [threads EXCEPT ![t] = [pc |-> "done", op |-> op, arg |-> <<>>,
                                          ret |-> value, called |-> Len(log)]]
    /\ ops' = ops + 1
    /\ UNCHANGED <<session, log, lock>>
    /\ RegFrame

ThreadToDict(t) == ReadState(t, "to_dict", Get(session).state)
ThreadIsReady(t) == ReadState(t, "is_ready", Get(session).state = "ready")
ThreadIsClosed(t) == ReadState(t, "is_closed", Get(session).state = "closed")

\* a Session fresh from Session.create, shared by the threads
LifecycleInit ==
    /\ config \in Configs
    /\ session = Some(SessionCreate(1, config, 1))
    /\ tool_handler = None
    /\ running = FALSE
    /\ pc = "idle"
    /\ stdout = <<>>
    /\ line = None
    /\ dispatched = FALSE
    /\ outcome = NoOutcome
    /\ behaviour = ""
    /\ lastResp = None
    /\ clock = 2
    /\ linesRead = 0
    /\ created = 1
    /\ regs = 0
    /\ ops = 0
    /\ call = NoCall
    /\ ConcIdle

LifecycleNext ==
    \E t \in 1..MaxThreads :
        \/ \E c \in Clients : MethodCall(t, "initialize", c)
        \/ MethodCall(t, "close", <<>>)
        \/ AcquireLock(t)
        \/ ThreadInitializeBegin(t)
        \/ ThreadInitializeEnd(t)
        \/ ThreadCloseBegin(t)
        \/ ThreadCloseEnd(t)
        \/ ThreadToDict(t)
        \/ ThreadIsReady(t)
        \/ ThreadIsClosed(t)

LifecycleSpec == LifecycleInit /\ [][LifecycleNext]_vars

\* ------------------------------------------------------ the in-memory repositories
RepositoryKinds == {"session", "conversation", "tool", "resource", "prompt"}

\* what is saved: aggregates that are saved again after they changed, and the
\* capabilities of the catalogues
RepositoryEntities(kind) ==
    CASE kind = "session" ->
           {[id |-> i, state |-> st] : i \in {"s1", "s2"}, st \in {"created", "ready"}}
      [] kind = "conversation" ->
           {[id |-> i, messages |-> n] : i \in {"c1", "c2"}, n \in {0, 1}}
      [] kind = "tool" -> ToolCatalogue
      [] kind = "resource" -> RegistryResources
      [] OTHER -> PromptCatalogue
                  \cup {[name |-> "review", has_generator |-> FALSE, arguments |-> <<>>]}

\* the keys callers ask for
RepositoryKeys(kind) ==
    CASE kind = "session" -> {"s1", "s2"}
      [] kind = "conversation" -> {"c1", "c2"}
      [] kind = "tool" -> ToolNames
      [] kind = "resource" -> RegistryURIs
      [] OTHER -> {"review", "plain"}

\* the dict key of an entity: str(session.id), str(conversation.id),
\* str(tool.name), str(resource.uri), prompt.name
KeyOf(kind, e) ==
    CASE kind \in {"session", "conversation"} -> e.id
      [] kind = "resource" -> e.uri
      [] OTHER -> e.name

\* save
RepositorySave(repo, e) == [repo EXCEPT !.items = DictSet(@, KeyOf(repo.kind, e), e)]

\* get: a dict lookup; the resource repository falls back to the templates
RepositoryGet(repo, key) ==
    IF repo.kind = "resource" THEN SessionGetResource([resources |-> repo.items], key)
    ELSE DictGet(repo.items, key)

\* a delete that reports success and leaves the entry in place
RepositoryDeleteKeeps(repo, key) == [ret |-> IndexOf(repo.items, key) # 0, repo |-> repo]

\* delete: [ret, repo]
RepositoryDelete(repo, key) ==
    IF IndexOf(repo.items, key) # 0
    THEN [ret |-> TRUE, repo |-> [repo EXCEPT !.items = DictDel(@, key)]]
    ELSE [ret |-> FALSE, repo |-> repo]

\* the other variables of a step of RepositorySpec
RepositoryFrame ==
    /\ ops < MaxRepositoryOps
    /\ ops' = ops + 1
    /\ UNCHANGED <<config, session, tool_handler, running, pc, stdout, line, dispatched,
                   outcome, behaviour, lastResp, clock, linesRead, created, regs,
                   calls, invocations, telemetry, getters, returned, added, lock, threads>>

\* each method runs as a whole under the lock of its repository and awaits nothing
Save(e) ==
    /\ repository' = RepositorySave(repository, e)
    /\ call' = [op |-> "save", arg |-> e, ret |-> None]
    /\ log' = Append(log, call')
    /\ RepositoryFrame

Fetch(key) ==
    /\ call' = [op |-> "get", arg |-> key, ret |-> RepositoryGet(repository, key)]
    /\ UNCHANGED <<repository, log>>
    /\ RepositoryFrame

Delete(key) ==
    /\ LET r == RepositoryDelete(repository, key)
       IN /\ repository' = r.repo
          /\ call' = [op |-> "delete", arg |-> key, ret |-> r.ret]
    /\ log' = Append(log, call')
    /\ RepositoryFrame

\* a new repository of one of the five classes
RepositoryInit ==
    /\ config \in {c \in Configs : c.tools /\ c.resources /\ c.prompts}
    /\ session = None
    /\ tool_handler = None
    /\ running = FALSE
    /\ pc = "idle"
    /\ stdout = <<>>
    /\ line = None
    /\ dispatched = FALSE
    /\ outcome = NoOutcome
    /\ behaviour = ""
    /\ lastResp = None
    /\ clock = 1
    /\ linesRead = 0
    /\ created = 0
    /\ regs = 0
    /\ ops = 0
    /\ call = NoCall
    /\ calls = [i \in 1..MaxCalls |-> IdleCall]
    /\ invocations = 0
    /\ telemetry = "none"
    /\ getters = [g \in 1..MaxGetters |-> IdleGetter]
    /\ returned = <<>>
    /\ added = 0
    /\ lock = 0
    /\ threads = [t \in 1..MaxThreads |-> IdleThread]
    /\ log = <<>>
    /\ \E k \in RepositoryKinds : repository = [kind |-> k, items |-> <<>>]

RepositoryNext ==
    \/ \E e \in RepositoryEntities(repository.kind) : Save(e)
    \/ \E key \in RepositoryKeys(repository.kind) : Fetch(key)
    \/ \E key \in RepositoryKeys(repository.kind) : Delete(key)

RepositorySpec == RepositoryInit /\ [][RepositoryNext]_vars

\* ------------------------------------------------------------ the ToolName value
\* ToolName.MAX_LENGTH
MAX_LENGTH == 64

LowerLetters == {"a", "z"}
Digits == {"0"}
\* the characters candidate names are made of
NameChars == LowerLetters \cup Digits \cup {"_", "A", "-", " ", "\n"}

\* the strings over cs of length at most n
RECURSIVE StringsUpTo(_, _)
StringsUpTo(cs, n) ==
    IF n = 0 THEN {<<>>}
    ELSE LET shorter == StringsUpTo(cs, n - 1)
         IN shorter \cup {Append(t, c) : t \in shorter, c \in cs}

\* candidate names: a run of "a" of some length, then a short tail
CandidateNames ==
    {[i \in 1..pad |-> "a"] \o tail :
       pad \in {0, MAX_LENGTH - 2, MAX_LENGTH - 1, MAX_LENGTH},
       tail \in StringsUpTo(NameChars, MaxTail)}

\* the pattern up to its "$", matched against the whole of v
PatternMatchToEnd(v) ==
    /\ v # <<>>
    /\ v[1] \in LowerLetters
    /\ \A i \in 2..Len(v) : v[i] \in LowerLetters \cup Digits \cup {"_"}

\* PATTERN.match(value) for ^[a-z][a-z0-9_]*$ as the re module evaluates it: "$"
\* matches at the end of the string and also just before a newline that ends it
PatternMatch(v) ==
    \/ PatternMatchToEnd(v)
    \/ /\ Len(v) >= 2
       /\ v[Len(v)] = "\n"
       /\ PatternMatchToEnd(SubSeq(v, 1, Len(v) - 1))

\* ToolName.__post_init__: [ok, error]
ToolNameCreate(value) ==
    IF value = <<>> THEN [ok |-> FALSE, error |-> "ToolName cannot be empty"]
    ELSE IF Len(value) > MAX_LENGTH
    THEN [ok |-> FALSE, error |-> "ToolName cannot exceed 64 characters"]
    ELSE IF ~PatternMatch(value)
    THEN [ok |-> FALSE, error |-> "ToolName must match pattern"]
    ELSE [ok |-> TRUE, error |-> ""]

\* ToolName(value=...) is called on the candidate
ConstructToolName ==
    /\ call.op = "candidate"
    /\ call' = [op |-> "ToolName", value |-> call.value, ret |-> ToolNameCreate(call.value)]
    /\ UNCHANGED <<concVars, config, session, tool_handler, running, pc, stdout, line,
                   dispatched, outcome, behaviour, lastResp, clock, linesRead, created,
                   regs, ops>>

\* any candidate name, before it is constructed
NameInit ==
    /\ config \in {c \in Configs : c.tools /\ c.resources /\ c.prompts}
    /\ ConcIdle
    /\ session = None
    /\ tool_handler = None
    /\ running = FALSE
    /\ pc = "idle"
    /\ stdout = <<>>
    /\ line = None
    /\ dispatched = FALSE
    /\ outcome = NoOutcome
    /\ behaviour = ""
    /\ lastResp = None
    /\ clock = 1
    /\ linesRead = 0
    /\ created = 0
    /\ regs = 0
    /\ ops = 0
    /\ \E v \in CandidateNames : call = [op |-> "candidate", value |-> v, ret |-> None]

NameNext == ConstructToolName

NameSpec == NameInit /\ [][NameNext]_vars

\* ------------------------------------------- SessionHandler over a repository
\* session holds SessionHandler._current_session, repository its session
\* repository; a session's id is the number of its Session.create call

\* the other variables of a step of SessionHandlerSpec
SessionHandlerFrame ==
    /\ ops < MaxRepositoryOps
    /\ ops' = ops + 1
    /\ UNCHANGED <<config, tool_handler, running, pc, stdout, line, dispatched,
                   behaviour, lastResp, linesRead, regs, log,
                   calls, invocations, telemetry, getters, returned, added, lock, threads>>

\* SessionHandler.handle_initialize: create, initialize, save, make current
SessionHandlerInitialize(c) ==
    /\ LET r == SessionInitialize(SessionCreate(created + 1, config, clock), c, clock + 1)
       IN /\ repository' = RepositorySave(repository, r.session)
          /\ session' = Some(r.session)
          /\ outcome' = IF r.raised THEN Raised(r.exc, r.msg) ELSE Returned(r.result)
    /\ created' = created + 1
    /\ clock' = clock + 2
    /\ call' = [op |-> "initialize", arg |-> created + 1]
    /\ SessionHandlerFrame

\* SessionHandler.handle_close: look the id up, close and save what was found,
\* forget the current session when it is the one that was closed
SessionHandlerClose(id) ==
    /\ LET found == RepositoryGet(repository, id)
       IN IF found = None
          THEN UNCHANGED <<repository, session, clock>>
          ELSE /\ repository' = RepositorySave(repository, SessionClose(Get(found), clock))
               /\ session' = IF session # None /\ Get(session).id = id THEN None ELSE session
               /\ clock' = clock + 1
    /\ outcome' = Returned(EmptyDict)
    /\ call' = [op |-> "close", arg |-> id]
    /\ UNCHANGED created
    /\ SessionHandlerFrame

\* a SessionHandler over an empty in-memory session repository
SessionHandlerInit ==
    /\ RepositoryInit
    /\ repository.kind = "session"

SessionHandlerNext ==
    \/ \E c \in Clients : SessionHandlerInitialize(c)
    \/ \E id \in 1..(created + 1) : SessionHandlerClose(id)

SessionHandlerSpec == SessionHandlerInit /\ [][SessionHandlerNext]_vars

\* ------------------------------------------------------------------ properties
\* the step in which the run loop handled an input line
LineStep == linesRead' = linesRead + 1
\* the step in which _handle_request ran on the request req'
CallStep == LineStep /\ dispatched'
Req == Get(line).req
ReqNext == Get(line').req
Resp == Get(lastResp)
RespNext == Get(lastResp')

IsSuccess(resp) == resp.keys = {"jsonrpc", "id", "result"}
IsError(resp, code) ==
    /\ resp.keys = {"jsonrpc", "id", "error"}
    /\ Get(resp.error).code = code

\* the step in which an operation was applied to the stand-alone Session
OpStep(op) == ops' = ops + 1 /\ call'.op = op

\* C1: with the session initialized, a tools/call that has an id and a non-empty
\* name is always answered with a success envelope; when the tool is missing,
\* disabled, times out or its handler raises, the result has isError true and
\* a text message, and no JSON-RPC error is given.
C1_ToolsCallAlwaysSuccessEnvelope ==
    [][(/\ CallStep
        /\ ReqNext.method = "tools/call"
        /\ ReqNext.id # None
        /\ ReqNext.params.isDict /\ ReqNext.params.name # ""
        /\ session # None /\ tool_handler # None)
       => LET name == ReqNext.params.name
              tool == DictGet(Get(session).tools, name)
              res == Get(RespNext.result)
              failing == \/ tool = None
                         \/ ~Get(tool).enabled
                         \/ behaviour' \in {"slow", "raise_value", "raise_other",
                                            "raise_timeout"}
          IN /\ lastResp' # None
             /\ IsSuccess(RespNext)
             /\ RespNext.id = ReqNext.id
             /\ failing =>
                  /\ "isError" \in res.keys
                  /\ Len(res.content) = 1
                  /\ res.content[1].type = "text"
                  /\ res.content[1].text.text # ""
             /\ tool = None =>
                  res.content[1].text = Msg("Tool not found: ", <<name>>)]_vars

\* after initialize, a tools/call whose handler raised was answered with a
\* success envelope whose result carries isError
C1_Witness ==
    /\ dispatched /\ Req.method = "tools/call" /\ Req.id # None
    /\ behaviour = "raise_value"
    /\ lastResp # None /\ IsSuccess(Resp)
    /\ "isError" \in Get(Resp.result).keys
    /\ Len(stdout) = 2

\* C2 (as claimed): every request with an id gets exactly one response, with
\* the request's id and exactly one of result and error.
C2_EveryCallAnswered ==
    (dispatched /\ Req.id # None) =>
        /\ lastResp # None
        /\ "id" \in Resp.keys /\ Resp.id = Req.id
        /\ ("result" \in Resp.keys) # ("error" \in Resp.keys)

\* C3 (as claimed): a line whose JSON object has no id never makes the run loop write.
C3_NoIdNeverWrites ==
    [][(LineStep /\ Get(line').kind = "object" /\ ReqNext.id = None)
       => stdout' = stdout]_vars

\* C3 (amended): a line whose object has no id and has jsonrpc "2.0" makes the
\* loop write nothing, whatever the method and the handler outcome; an object
\* with no id and another jsonrpc value is answered with one INVALID_REQUEST
\* error that has no id.
C3_NoIdValidVersionNeverWrites ==
    [][(LineStep /\ Get(line').kind = "object" /\ ReqNext.id = None)
       => IF ReqNext.jsonrpc = JSONRPC_VERSION
          THEN stdout' = stdout /\ lastResp' = None
          ELSE /\ ~dispatched'
               /\ Len(stdout') = Len(stdout) + 1
               /\ stdout'[Len(stdout')].keys = {"jsonrpc", "error"}
               /\ Get(stdout'[Len(stdout')].error).code = INVALID_REQUEST]_vars

\* a notification made a handler fail and nothing was written
C3_Witness ==
    /\ dispatched /\ Req.id = None
    /\ outcome.kind = "raise"
    /\ linesRead = 2 /\ stdout = <<>>

\* C4: once the server holds a session, a later initialize is answered with an
\* error and leaves the session and the tool handler as they were; a server
\* creates at most one session.
C4_AtMostOneSession ==
    /\ [](created <= 1)
    /\ [][(CallStep /\ ReqNext.method = "initialize" /\ session # None)
          => /\ session' = session
             /\ tool_handler' = tool_handler
             /\ created' = created
             /\ ReqNext.id # None =>
                  /\ lastResp' # None
                  /\ IsError(RespNext, INVALID_PARAMS)
                  /\ stdout' = Append(stdout, RespNext)]_vars

\* a second initialize was refused on a ready session that has a tool registered
C4_Witness ==
    /\ dispatched /\ Req.method = "initialize" /\ Req.id # None
    /\ outcome = Raised("ValueError", Msg("Session already initialized", <<>>))
    /\ session # None /\ Get(session).state = "ready"
    /\ Get(session).tools # <<>>
    /\ created = 1 /\ linesRead = 2

\* C5: Session.initialize succeeds only from CREATED or INITIALIZING, then sets
\* READY, stores the client info, stamps initialized_at and emits one
\* SessionInitialized event; in any other state it raises ValueError and
\* changes nothing.
C5_InitializeContract ==
    [][OpStep("initialize")
       => LET s == Get(session)
              t == Get(session')
          IN IF s.state \in {"created", "initializing"}
             THEN /\ outcome'.kind = "return"
                  /\ t.state = "ready"
                  /\ t.client_info = Some(call'.client)
                  /\ t.initialized_at = Some(clock)
                  /\ t.events = Append(s.events,
                                       [type |-> "SessionInitialized", session_id |-> s.id,
                                        client_name |-> call'.client.name])
             ELSE /\ outcome'.kind = "raise" /\ outcome'.exc = "ValueError"
                  /\ t = s]_vars

\* initialize was refused on a session that had been initialized and then closed
C5_Witness ==
    /\ call.op = "initialize"
    /\ outcome.kind = "raise"
    /\ Get(session).state = "closed"
    /\ Get(session).client_info # None
    /\ Get(session).initialized_at # None

\* C6: the first close() moves the session to CLOSED, stamps closed_at and emits
\* one SessionClosed event; a later close() changes nothing and does not raise.
C6_CloseIdempotent ==
    [][OpStep("close")
       => LET s == Get(session)
              t == Get(session')
          IN /\ outcome'.kind = "return"
             /\ t.state = "closed"
             /\ IF s.state # "closed"
                THEN /\ t.closed_at = Some(clock)
                     /\ t.events = Append(s.events,
                                          [type |-> "SessionClosed", session_id |-> s.id])
                ELSE t = s]_vars

\* close() was called again on a session closed by an earlier call
C6_Witness ==
    /\ call.op = "close"
    /\ Get(session).state = "closed"
    /\ Get(session).closed_at # None
    /\ Get(Get(session).closed_at) < clock - 1

\* the requests that need a session
SessionMethods ==
    {"tools/list", "tools/call", "resources/list", "resources/templates/list",
     "resources/read", "prompts/list", "prompts/get", "logging/setLevel"}

\* an initialize request succeeded earlier: only then is the tool handler set
InitializeSucceeded == tool_handler # None

\* C7 (as claimed): a request that needs a session gets a result only after an
\* initialize request succeeded; otherwise it is answered with INVALID_PARAMS
\* and the session is left as it was.
C7_SessionMethodsNeedInitialize ==
    [][(/\ CallStep
        /\ ReqNext.method \in SessionMethods
        /\ ReqNext.id # None
        /\ ReqNext.params.isDict
        /\ ~InitializeSucceeded)
       => /\ lastResp' # None
          /\ IsError(RespNext, INVALID_PARAMS)
          /\ session' = session]_vars

\* C8: when a method handler raises, the call is answered with a JSON-RPC error
\* that is written as the response of that line: INVALID_PARAMS with the
\* failure's message for a ValueError, INTERNAL_ERROR with the exception's text
\* for any other exception.
C8_HandlerFailureMapping ==
    (dispatched /\ outcome.kind = "raise" /\ Req.id # None) =>
        /\ lastResp # None
        /\ IsError(Resp, IF outcome.exc = "ValueError" THEN INVALID_PARAMS
                         ELSE INTERNAL_ERROR)
        /\ Get(Resp.error).message = outcome.msg
        /\ Resp.id = Req.id
        /\ stdout # <<>> /\ stdout[Len(stdout)] = Resp

\* a resource reader raised a RuntimeError and the call got INTERNAL_ERROR
C8_Witness ==
    /\ dispatched /\ Req.method = "resources/read" /\ Req.id # None
    /\ outcome.kind = "raise" /\ outcome.exc = "RuntimeError"
    /\ lastResp # None /\ IsError(Resp, INTERNAL_ERROR)

\* no registered resource has this URI, and no registered template has a
\* literal prefix (the text before its first brace) that starts it
NoResourceFor(s, uri) ==
    \A i \in 1..Len(s.resources) :
        LET r == s.resources[i][2]
        IN /\ r.uri # uri
           /\ ~(r.is_template /\ StartsWith(uri, BeforeBrace(r.uri)))

NoPromptFor(s, name) == \A i \in 1..Len(s.prompts) : s.prompts[i][2].name # name

\* C9: resources/read for a URI that matches no registered resource, and
\* prompts/get for a name that is not registered, are answered with an
\* INVALID_PARAMS error and never with a success envelope.
C9_MissingResourceOrPromptIsError ==
    [][(/\ CallStep
        /\ ReqNext.id # None
        /\ session # None
        /\ \/ /\ ReqNext.method = "resources/read"
              /\ ReqNext.params.uri # <<>>
              /\ NoResourceFor(Get(session), ReqNext.params.uri)
           \/ /\ ReqNext.method = "prompts/get"
              /\ ReqNext.params.name # ""
              /\ NoPromptFor(Get(session), ReqNext.params.name))
       => /\ lastResp' # None
          /\ IsError(RespNext, INVALID_PARAMS)
          /\ "result" \notin RespNext.keys
          /\ Get(RespNext.error).message =
               IF ReqNext.method = "resources/read"
               THEN Msg("Resource not found: ", ReqNext.params.uri)
               ELSE Msg("Prompt not found: ", <<ReqNext.params.name>>)
          /\ stdout' = Append(stdout, RespNext)]_vars

\* a URI outside the literal prefix of the registered template was refused
C9_Witness ==
    /\ dispatched /\ Req.method = "resources/read" /\ Req.id # None
    /\ session # None
    /\ \E i \in 1..Len(Get(session).resources) : Get(session).resources[i][2].is_template
    /\ lastResp # None /\ IsError(Resp, INVALID_PARAMS)
    /\ Get(Resp.error).message = Msg("Resource not found: ", Req.params.uri)

\* C10: a request whose method is not in the dispatch table is answered with
\* METHOD_NOT_FOUND when it has an id and dropped silently when it has none;
\* the session and the run flag stay as they were.
C10_UnknownMethod ==
    [][(CallStep /\ ReqNext.method \notin DispatchTable)
       => /\ session' = session
          /\ tool_handler' = tool_handler
          /\ running' = running
          /\ IF ReqNext.id # None
             THEN /\ lastResp' # None
                  /\ IsError(RespNext, METHOD_NOT_FOUND)
                  /\ RespNext.id = ReqNext.id
                  /\ stdout' = Append(stdout, RespNext)
             ELSE lastResp' = None /\ stdout' = stdout]_vars

\* after a successful initialize, an unknown method without id was dropped
C10_Witness ==
    /\ dispatched /\ Req.method \notin DispatchTable /\ Req.id = None
    /\ lastResp = None
    /\ Len(stdout) = 1 /\ IsSuccess(stdout[1])
    /\ session # None /\ Get(session).state = "ready" /\ running


\* the line handled by the step, and the last response line after it
LineNext == Get(line')
LastWritten == stdout'[Len(stdout')]
\* the step wrote nothing / exactly one line
WroteNothing == stdout' = stdout
WroteOne == Len(stdout') = Len(stdout) + 1 /\ SubSeq(stdout', 1, Len(stdout)) = stdout
\* the step left the session, the tool handler and the run flag alone
NoEffect == session' = session /\ tool_handler' = tool_handler /\ running' = running

\* C11 (as claimed): a non-empty line that is not valid JSON is answered with
\* exactly one PARSE_ERROR response whose id member is null; nothing is
\* dispatched and the loop goes on reading.
C11_ParseErrorNullId ==
    [][(LineStep /\ LineNext.kind = "garbage" /\ LineNext.len <= MAX_MESSAGE_SIZE)
       => /\ ~dispatched'
          /\ NoEffect
          /\ WroteOne
          /\ LastWritten.keys = {"jsonrpc", "id", "error"}
          /\ LastWritten.id = None
          /\ Get(LastWritten.error).code = PARSE_ERROR
          /\ (running => pc' = "reading")]_vars

\* C12: a request whose jsonrpc field is not "2.0" is answered with exactly one
\* INVALID_REQUEST error that carries the request's id when it has one (and no
\* id member otherwise); the request is not dispatched, whatever its method:
\* session, tool handler and run flag stay as they were.
C12_WrongVersionRejected ==
    [][(/\ LineStep
        /\ LineNext.kind = "object" /\ LineNext.len <= MAX_MESSAGE_SIZE
        /\ LineNext.req.jsonrpc # "2.0")
       => /\ ~dispatched'
          /\ NoEffect
          /\ WroteOne
          /\ LastWritten.keys = {"jsonrpc", "error"}
                                \cup (IF LineNext.req.id # None THEN {"id"} ELSE {})
          /\ LastWritten.id = LineNext.req.id
          /\ Get(LastWritten.error).code = INVALID_REQUEST]_vars

\* a shutdown request with an id and version "1.0" was refused while running
C12_Witness ==
    /\ line # None /\ Get(line).kind = "object"
    /\ Get(line).req.jsonrpc = "1.0" /\ Get(line).req.method = "shutdown"
    /\ Get(line).req.id = Some("abc")
    /\ ~dispatched /\ running /\ pc = "reading"
    /\ Len(stdout) = 1 /\ IsError(stdout[1], INVALID_REQUEST) /\ stdout[1].id = Some("abc")

\* the content of a line can stop the loop only through a dispatched shutdown
IsShutdown(l) == l.kind = "object" /\ VersionOk(l.req) /\ l.len <= MAX_MESSAGE_SIZE
                 /\ l.req.method = "shutdown"

C19_ResponsesInRequestOrder ==
    [][/\ Len(stdout') >= Len(stdout)
       /\ SubSeq(stdout', 1, Len(stdout)) = stdout
       /\ Len(stdout') <= Len(stdout) + 1
       /\ (stdout' # stdout => LineStep)
       /\ (stdout' # stdout /\ dispatched')
            => (lastResp' # None /\ LastWritten = RespNext /\ LastWritten.id = ReqNext.id)]_vars

\* two calls with different ids were answered, the first line first
C19_Witness ==
    /\ linesRead = 2 /\ Len(stdout) = 2
    /\ stdout[1].id = Some("0") /\ stdout[2].id = Some("abc")
    /\ IsSuccess(stdout[1]) /\ IsSuccess(stdout[2])
    /\ dispatched /\ Req.id = Some("abc")

\* C20: the step that handles a shutdown request writes its response {} when
\* the request has an id (and nothing otherwise), clears the run flag and
\* leaves the loop; once the loop is left no input line is read, nothing is
\* dispatched and nothing is written any more.
C20_ShutdownStopsReading ==
    /\ [][(CallStep /\ ReqNext.method = "shutdown")
          => /\ ~running' /\ pc' = "exited"
             /\ session' = session
             /\ IF ReqNext.id # None
                THEN /\ WroteOne
                     /\ IsSuccess(LastWritten)
                     /\ LastWritten.id = ReqNext.id
                     /\ Get(LastWritten.result) = EmptyDict
                ELSE WroteNothing]_vars
    /\ [][pc = "exited"
          => /\ pc' = "exited" /\ linesRead' = linesRead /\ line' = line
             /\ dispatched' = dispatched /\ stdout' = stdout]_vars

\* shutdown was the first line, it was answered, and the loop was left although
\* more input could have been read
C20_Witness ==
    /\ dispatched /\ Req.method = "shutdown" /\ Req.id = Some("0")
    /\ linesRead = 1 /\ linesRead < MaxLines
    /\ pc = "exited" /\ ~running
    /\ stdout = <<MakeResponse(Some("0"), Some(EmptyDict), None)>>


\* ----------------------------------------------- properties of handle_execute
CallIds == 1..MaxCalls
IsDone(i) == calls[i].pc = "done"
\* the call whose handler was invoked and outlived timeout_seconds
TimedOut(i) == IsDone(i) /\ calls[i].handler # "none" /\ calls[i].beh = "slow"
\* the ToolExecuted events in the queue of the session
ToolEvents == SelectSeq(Get(session).events, LAMBDA e : e.type = "ToolExecuted")

C15_OneEventPerCall ==
    /\ [][\A i \in CallIds :
            (~IsDone(i) /\ calls'[i].pc = "done")
              => /\ Len(Get(session').events) = Len(Get(session).events) + 1
                 /\ SubSeq(Get(session').events, 1, Len(Get(session).events))
                      = Get(session).events
                 /\ LET e == Get(session').events[Len(Get(session').events)]
                    IN /\ e.type = "ToolExecuted"
                       /\ e.tool_name = calls'[i].tool_name
                       /\ ~calls'[i].raised
                       /\ e.success = ~Get(calls'[i].result).is_error]_vars
    /\ [][(\A i \in CallIds : calls'[i].pc = calls[i].pc) => session' = session]_vars
    /\ [](Len(ToolEvents) = Cardinality({i \in CallIds : IsDone(i)}))

\* one call ended on the not-found path and one on the timeout path, and the
\* queue holds their two events, both with success false
C15_Witness ==
    /\ IsDone(1) /\ calls[1].tool = None
    /\ TimedOut(2)
    /\ Len(ToolEvents) = 2
    /\ ~ToolEvents[1].success /\ ~ToolEvents[2].success
    /\ ToolEvents[1].tool_name = "ghost"

\* what a call returns when there is no telemetry client at all
ExpectedResult(c) ==
    IF c.handler = "none"
    THEN ExecuteBody(Get(session), c.tool_name, "").result
    ELSE ClassifyExecution(Get(c.tool), ToolExecuteWith(Get(c.tool), c.arguments, c.beh)).result

\* C16: a failure of the telemetry span (on entry or on exit) or of the metric
\* record does not change what handle_execute returns: the call does not
\* raise and returns the ToolResult it returns without a telemetry client.
C16_TelemetryFailureHarmless ==
    \A i \in CallIds :
        IsDone(i) => /\ ~calls[i].raised
                     /\ calls[i].result = Some(ExpectedResult(calls[i]))

\* with the span failing on entry, a call still returned its handler's output
C16_Witness ==
    /\ telemetry = "span_fails"
    /\ IsDone(1) /\ calls[1].beh = "ok"
    /\ ~calls[1].raised /\ ~Get(calls[1].result).is_error
    /\ IsDone(2) /\ calls[2].tool = None

\* C17: with N calls for the same tool in flight, the handler is invoked once
\* per call, a call whose handler returns normally gets the result computed
\* from its own arguments, and a step of one call (its timeout or failure
\* included) changes no other call: only a call's own timeout cancels its
\* handler.
C17_ConcurrentCallsIndependent ==
    /\ [](invocations = Cardinality({i \in CallIds : calls[i].handler # "none"}))
    /\ [](\A i \in CallIds :
            /\ (IsDone(i) /\ calls[i].handler # "none" /\ calls[i].beh = "ok")
                 => calls[i].result =
                      Some(ToolResultText(Msg("echo", <<calls[i].arguments>>), FALSE))
            /\ calls[i].handler = "cancelled" => TimedOut(i))
    /\ [][\A i, j \in CallIds : (i # j /\ calls'[i] # calls[i]) => calls'[j] = calls[j]]_vars

\* two calls of the same tool overlapped: the second one started later and
\* returned the result of its own arguments first (its event is the older
\* one), then the first one timed out
C17_Witness ==
    /\ invocations = 2
    /\ calls[1].tool_name = "echo" /\ calls[2].tool_name = "echo"
    /\ TimedOut(1) /\ calls[1].arguments = "x"
    /\ IsDone(2) /\ calls[2].handler = "finished" /\ calls[2].steps = 1
    /\ calls[2].result = Some(ToolResultText(Msg("echo", <<"y">>), FALSE))
    /\ Len(ToolEvents) = 2 /\ ToolEvents[1].success /\ ~ToolEvents[2].success

\* ------------------------------------------------ properties of the event queue
\* how often the produced event n occurs in a sequence of events
Occurs(n, events) ==
    Cardinality({k \in 1..Len(events) :
                   events[k].type = "ToolExecuted" /\ events[k].event_id = n})
\* how often event n has been returned, or is about to be (it is in the copy
\* of a get_events call that has not returned yet)
Deliveries(n) ==
    LET RECURSIVE Sum(_)
        Sum(g) == IF g = 0 THEN 0
                  ELSE Sum(g - 1) + (IF getters[g].pc = "copied"
                                     THEN Occurs(n, getters[g].events) ELSE 0)
    IN Occurs(n, returned) + Sum(MaxGetters)

\* C18 (as claimed): with events added while get_events calls are running,
\* every event added is returned by exactly one get_events call: it is never
\* lost (it is in the queue or delivered) and never delivered twice.
C18_EachEventExactlyOnce ==
    \A n \in 1..added :
        /\ Occurs(n, Get(session).events) + Deliveries(n) >= 1
        /\ Deliveries(n) <= 1


\* the current session, if one exists, is CLOSED
SessionClosedOrAbsent == session = None \/ Get(session).state = "closed"

\* C21: once the run loop has been left (EOF, a shutdown request, or an external
\* stop seen by the loop condition) the process reaches the end of run_server with
\* the current session, if one exists, in state CLOSED, and it stays CLOSED; an
\* external stop closes the session it finds in the same step
C21_StoppedServerClosesSession ==
    /\ (pc = "exited") ~> (pc = "stopped" /\ SessionClosedOrAbsent)
    /\ [](pc = "stopped" => SessionClosedOrAbsent)
    /\ [][Stop => SessionClosedOrAbsent']_vars

\* the loop was left on EOF with a READY session, and the session was closed at the
\* end of run_server
C21_Witness ==
    /\ pc = "stopped" /\ line = Some(EOFLine)
    /\ session # None /\ Get(session).state = "closed"
    /\ Get(session).closed_at # None
    /\ ~running


\* the tool that the history of registry changes leaves under name n (None: none)
LastRegistered(n) ==
    LET hits == {i \in 1..Len(log) :
                   \/ log[i].op = "register_tool" /\ log[i].arg.name = n
                   \/ log[i].op = "unregister_tool" /\ log[i].arg = n}
    IN IF hits = {} THEN None
       ELSE LET k == CHOOSE i \in hits : \A j \in hits : j <= i
            IN IF log[k].op = "register_tool" THEN Some(log[k].arg) ELSE None

\* thread t leaves the body of method op in this step
Returns(t, op) == InBody(t, op) /\ threads'[t].pc = "done"

\* how often name n occurs in a list of tools
Occurrences(tools, n) == Cardinality({i \in 1..Len(tools) : tools[i].name = n})

\* C22: after any sequence of register_tool and unregister_tool calls, list_tools
\* holds every registered name exactly once and no other name, and get_tool gives
\* the tool registered last under a name; register_tool returns without error
\* also for a name that is present; unregister_tool returns true exactly when the
\* name was present, and the name is absent from get_tool and list_tools afterwards
C22_RegistryUpsertAndRemove ==
    /\ [](\A n \in ToolNames :
            /\ SessionGetTool(Get(session), n) = LastRegistered(n)
            /\ Occurrences(SessionListTools(Get(session)), n)
                 = IF LastRegistered(n) = None THEN 0 ELSE 1
            /\ \A i \in 1..Len(SessionListTools(Get(session))) :
                 SessionListTools(Get(session))[i].name = n
                    => Some(SessionListTools(Get(session))[i]) = LastRegistered(n))
    /\ [][\A t \in 1..MaxThreads :
            /\ Returns(t, "register_tool")
                 => /\ threads'[t].ret = None
                    /\ SessionGetTool(Get(session'), threads[t].arg.name) = Some(threads[t].arg)
                    /\ Occurrences(SessionListTools(Get(session')), threads[t].arg.name) = 1
            /\ Returns(t, "unregister_tool")
                 => /\ threads'[t].ret = (SessionGetTool(Get(session), threads[t].arg) # None)
                    /\ SessionGetTool(Get(session'), threads[t].arg) = None
                    /\ Occurrences(SessionListTools(Get(session')), threads[t].arg) = 0
            /\ Returns(t, "get_tool")
                 => threads'[t].ret = LastRegistered(threads[t].arg)
            /\ Returns(t, "list_tools")
                 => \A n \in ToolNames :
                      Occurrences(Items(threads'[t].ret, Get(session')), n)
                        = IF LastRegistered(n) = None THEN 0 ELSE 1]_vars

\* echo was registered twice, then one thread unregistered it and got true, and
\* the other thread unregistered it again and got false
C22_Witness ==
    /\ Len(log) = 4
    /\ log[1].op = "register_tool" /\ log[1].arg.name = "echo" /\ log[1].arg.enabled
    /\ log[2].op = "register_tool" /\ log[2].arg.name = "echo" /\ ~log[2].arg.enabled
    /\ log[3].op = "unregister_tool" /\ log[3].arg = "echo"
    /\ log[4].op = "unregister_tool" /\ log[4].arg = "echo"
    /\ \E t, u \in 1..MaxThreads :
         /\ threads[t].pc = "done" /\ threads[t].op = "unregister_tool" /\ threads[t].ret = TRUE
         /\ threads[u].pc = "done" /\ threads[u].op = "unregister_tool" /\ threads[u].ret = FALSE
    /\ SessionListTools(Get(session)) = <<>>


\* the entries of the history that register a resource under uri
Registrations(uri) ==
    {i \in 1..Len(log) : log[i].op = "register_resource" /\ log[i].arg.uri = uri}

\* the URIs registered so far
RegisteredURIs ==
    {log[i].arg.uri : i \in {j \in 1..Len(log) : log[j].op = "register_resource"}}

\* the resource registered last under uri, and when uri was registered first
ResourceUnder(uri) == log[CHOOSE i \in Registrations(uri) : \A j \in Registrations(uri) : j <= i].arg
FirstRegistration(uri) == CHOOSE i \in Registrations(uri) : \A j \in Registrations(uri) : i <= j

\* the registered templates whose text before the first "{" is a prefix of uri
MatchingTemplates(uri) ==
    {u \in RegisteredURIs : ResourceUnder(u).is_template /\ StartsWith(uri, BeforeBrace(u))}

\* C23: get_resource(uri) returns the resource registered under exactly uri when
\* there is one, also when a template registered earlier matches uri; otherwise
\* the matching template whose URI was registered earliest; otherwise nothing
C23_GetResourceExactThenFirstTemplate ==
    [][\A t \in 1..MaxThreads :
         Returns(t, "get_resource") =>
            LET uri == threads[t].arg
                ret == threads'[t].ret
            IN IF uri \in RegisteredURIs THEN ret = Some(ResourceUnder(uri))
               ELSE IF MatchingTemplates(uri) # {}
               THEN \E u \in MatchingTemplates(uri) :
                       /\ \A v \in MatchingTemplates(uri) : FirstRegistration(u) <= FirstRegistration(v)
                       /\ ret = Some(ResourceUnder(u))
               ELSE ret = None]_vars

\* two templates that match a/b were registered before the plain resource a/b, and
\* get_resource(a/b) returned the plain resource
C23_Witness ==
    /\ Len(log) = 3
    /\ log[1].op = "register_resource" /\ log[1].arg.uri = <<"{", "}">>
    /\ log[2].op = "register_resource" /\ log[2].arg.uri = <<"a", "{", "}">>
    /\ log[3].op = "register_resource" /\ log[3].arg.uri = <<"a", "b">> /\ ~log[3].arg.is_template
    /\ \E t \in 1..MaxThreads :
         /\ threads[t].pc = "done" /\ threads[t].op = "get_resource"
         /\ threads[t].arg = <<"a", "b">>
         /\ threads[t].ret = Some(log[3].arg)


\* the list methods, and the registry each of them lists
ListMethods == {"list_tools", "list_resources", "list_prompts"}

\* the prompt that the history leaves under a name (None: none)
PromptUnder(name) ==
    LET hits == {i \in 1..Len(log) : log[i].op = "register_prompt" /\ log[i].arg.name = name}
    IN IF hits = {} THEN None
       ELSE Some(log[CHOOSE i \in hits : \A j \in hits : j <= i].arg)

\* list l holds, for every key, what the completed registry changes of the
\* history leave under it, once, and nothing else
ReflectsHistory(l) ==
    IF l.which = "tools"
    THEN /\ \A i \in 1..Len(l.items) : Some(l.items[i]) = LastRegistered(l.items[i].name)
         /\ \A n \in ToolNames :
              Occurrences(l.items, n) = IF LastRegistered(n) = None THEN 0 ELSE 1
    ELSE IF l.which = "resources"
    THEN /\ \A i \in 1..Len(l.items) :
              /\ l.items[i].uri \in RegisteredURIs
              /\ l.items[i] = ResourceUnder(l.items[i].uri)
         /\ \A u \in RegisteredURIs :
              Cardinality({i \in 1..Len(l.items) : l.items[i].uri = u}) = 1
    ELSE /\ \A i \in 1..Len(l.items) : Some(l.items[i]) = PromptUnder(l.items[i].name)
         /\ \A q \in PromptCatalogue :
              Cardinality({i \in 1..Len(l.items) : l.items[i].name = q.name})
                = IF PromptUnder(q.name) = None THEN 0 ELSE 1

\* C24: the list a list method returns holds the registry as the registry changes
\* completed so far leave it, every change of another thread wholly or not at
\* all (the body of a method runs only in the thread that holds the lock, one
\* thread at a time), and whatever any thread registers or unregisters afterwards,
\* the content of the returned list stays what it was
C24_ListsAreSnapshots ==
    /\ [](\A t, u \in 1..MaxThreads :
            /\ threads[t].pc = "locked" => lock = t
            /\ threads[t].pc = "locked" /\ threads[u].pc = "locked" => t = u)
    /\ [][\A t \in 1..MaxThreads :
            /\ (\E op \in ListMethods : Returns(t, op))
                 => /\ ReflectsHistory(threads'[t].ret) /\ log' = log
                    /\ Items(threads'[t].ret, Get(session')) = threads'[t].ret.items
            /\ (threads[t].pc = "done" /\ threads[t].op \in ListMethods
                  /\ threads'[t].pc = "done")
                 => Items(threads[t].ret, Get(session')) = Items(threads[t].ret, Get(session))]_vars

\* a thread called list_tools when nothing was registered, another thread's
\* register_tool completed before that call returned, and the list holds the tool;
\* afterwards the tool was unregistered and the list still holds it
C24_Witness ==
    /\ Len(log) = 2
    /\ log[1].op = "register_tool" /\ log[2].op = "unregister_tool"
    /\ SessionListTools(Get(session)) = <<>>
    /\ \E t \in 1..MaxThreads :
         /\ threads[t].pc = "done" /\ threads[t].op = "list_tools"
         /\ threads[t].called = 0
         /\ Items(threads[t].ret, Get(session)) = <<log[1].arg>>


\* C25: tools/list names every tool of the registry, in registry order, whether
\* the tool is enabled, disabled or without handler; a tools/call that names a
\* registered tool that is disabled or has no handler returns a result with
\* isError and one text item, and no handler function is invoked for it
C25_ListedButNotExecutable ==
    /\ [][(CallStep /\ ReqNext.method = "tools/list" /\ session # None)
          => LET tools == Get(session).tools
             IN /\ outcome'.kind = "return"
                /\ Len(Get(outcome'.result).tools) = Len(tools)
                /\ \A i \in 1..Len(tools) : Get(outcome'.result).tools[i] = tools[i][2].name]_vars
    /\ [][(/\ CallStep /\ ReqNext.method = "tools/call"
           /\ ReqNext.params.isDict /\ ReqNext.params.name # ""
           /\ session # None /\ tool_handler # None
           /\ DictGet(Get(session).tools, ReqNext.params.name) # None
           /\ LET tool == Get(DictGet(Get(session).tools, ReqNext.params.name))
              IN ~tool.enabled \/ ~tool.has_handler)
          => /\ outcome'.kind = "return"
             /\ "isError" \in Get(outcome'.result).keys
             /\ Len(Get(outcome'.result).content) = 1
             /\ Get(outcome'.result).content[1].type = "text"
             /\ behaviour' = ""
             /\ ReqNext.id # None => /\ lastResp' # None
                                     /\ IsSuccess(RespNext)
                                     /\ RespNext.result = outcome'.result]_vars

\* a tool without handler was registered, and a tools/call on it was answered with
\* an isError result without any handler having run
C25_Witness ==
    /\ dispatched /\ Req.method = "tools/call" /\ Req.id # None
    /\ Req.params.name = "bare"
    /\ session # None
    /\ DictGet(Get(session).tools, "bare") # None
    /\ ~Get(DictGet(Get(session).tools, "bare")).has_handler
    /\ behaviour = ""
    /\ lastResp # None /\ IsSuccess(Resp)
    /\ "isError" \in Get(Resp.result).keys
    /\ Get(Resp.result).content[1].text = Msg("Tool has no handler: ", <<"bare">>)


\* the required arguments of prompt p that the argument map args lacks
MissingRequired(p, args) ==
    {i \in 1..Len(p.arguments) : p.arguments[i].required /\ p.arguments[i].name \notin args}

\* C26: a prompts/get that names a registered prompt and brings an argument map
\* without one of the arguments the prompt declares required fails with a
\* ValueError before the generator function is invoked; a request with an id is
\* answered with the error INVALID_PARAMS (-32602), whatever the generator
\* would have done
C26_MissingRequiredArgument ==
    [][(/\ CallStep /\ ReqNext.method = "prompts/get"
        /\ ReqNext.params.isDict /\ ReqNext.params.name # ""
        /\ session # None
        /\ SessionGetPrompt(Get(session), ReqNext.params.name) # None
        /\ MissingRequired(Get(SessionGetPrompt(Get(session), ReqNext.params.name)),
                           ReqNext.params.args) # {})
       => /\ outcome'.kind = "raise" /\ outcome'.exc = "ValueError"
          /\ outcome'.msg.text = "Missing required argument: "
          /\ behaviour' = ""
          /\ ReqNext.id # None => /\ lastResp' # None
                                  /\ IsError(RespNext, INVALID_PARAMS)
                                  /\ RespNext.id = ReqNext.id]_vars

\* the prompt review, which requires the argument code and has a generator, was
\* asked for with an empty argument map and the answer was INVALID_PARAMS
C26_Witness ==
    /\ dispatched /\ Req.method = "prompts/get" /\ Req.id # None
    /\ Req.params.name = "review" /\ Req.params.args = {}
    /\ session # None
    /\ SessionGetPrompt(Get(session), "review") # None
    /\ Get(SessionGetPrompt(Get(session), "review")).has_generator
    /\ behaviour = ""
    /\ lastResp # None /\ IsError(Resp, INVALID_PARAMS)
    /\ Get(Resp.error).message = Msg("Missing required argument: ", <<"code">>)


\* C27: a line that has, after stripping, more than 10 * 1024 * 1024 characters
\* is dropped: nothing is written, _handle_request is not called, the session,
\* the tool handler and the run flag stay as they are, and the loop goes on to
\* the next line as long as the run flag is set
C27_OversizedLineDropped ==
    [][(LineStep /\ Get(line').kind # "blank" /\ Get(line').len > 10 * 1024 * 1024)
       => /\ stdout' = stdout
          /\ ~dispatched'
          /\ lastResp' = None
          /\ session' = session
          /\ tool_handler' = tool_handler
          /\ running' = running
          /\ pc' = IF running THEN "reading" ELSE "exited"]_vars

\* an oversized shutdown request was read after initialize had been answered: no
\* second response exists, the session is READY and the loop is still reading
C27_Witness ==
    /\ linesRead = 2 /\ line # None
    /\ Get(line).kind = "object" /\ Get(line).len = MAX_MESSAGE_SIZE + 1
    /\ Req.method = "shutdown"
    /\ ~dispatched
    /\ Len(stdout) = 1
    /\ session # None /\ Get(session).state = "ready"
    /\ running /\ pc = "reading"


\* the capability flags of the configuration
CapabilityFlags == {"tools", "resources", "prompts", "logging", "sampling"}

\* C28: an initialize request that finds no session and brings a params object
\* whose clientInfo is absent or an object succeeds: the session is READY and
\* holds the client's name and version (or "unknown"), the result has exactly the
\* members protocolVersion, serverInfo and capabilities, and capabilities has
\* the key of a capability flag exactly when the configuration enables the flag;
\* a request with an id is answered with that result
C28_InitializeResult ==
    [][(/\ CallStep /\ ReqNext.method = "initialize"
        /\ session = None
        /\ ReqNext.params.isDict /\ ReqNext.params.clientInfo # "nondict")
       => /\ outcome'.kind = "return"
          /\ session' # None
          /\ Get(session').state = "ready"
          /\ Get(session').client_info
               = Some(IF ReqNext.params.clientInfo = "dict"
                      THEN [name |-> "cli", version |-> "1.0"]
                      ELSE [name |-> "unknown", version |-> "unknown"])
          /\ LET result == Get(outcome'.result)
             IN /\ result.keys = {"protocolVersion", "serverInfo", "capabilities"}
                /\ result.capabilities \subseteq CapabilityFlags
                /\ \A k \in CapabilityFlags : k \in result.capabilities <=> config[k]
          /\ ReqNext.id # None => /\ lastResp' # None
                                  /\ IsSuccess(RespNext)
                                  /\ RespNext.id = ReqNext.id
                                  /\ RespNext.result = outcome'.result]_vars

\* under a configuration with only sampling and logging enabled, initialize with a
\* clientInfo object was answered with exactly these two capabilities and the
\* session is READY with the client stored
C28_Witness ==
    /\ config = [tools |-> FALSE, resources |-> FALSE, prompts |-> FALSE,
                 logging |-> TRUE, sampling |-> TRUE]
    /\ dispatched /\ Req.method = "initialize" /\ Req.id # None
    /\ Req.params.clientInfo = "dict"
    /\ lastResp # None /\ IsSuccess(Resp)
    /\ Get(Resp.result).capabilities = {"logging", "sampling"}
    /\ session # None /\ Get(session).state = "ready"
    /\ Get(session).client_info = Some([name |-> "cli", version |-> "1.0"])


\* the saves and deletes of the history that concern key
Touching(key) ==
    {i \in 1..Len(log) :
       \/ log[i].op = "save" /\ KeyOf(repository.kind, log[i].arg) = key
       \/ log[i].op = "delete" /\ log[i].arg = key}

\* the entity saved last under key and not deleted since (None: none)
LastSaved(key) ==
    IF Touching(key) = {} THEN None
    ELSE LET k == CHOOSE i \in Touching(key) : \A j \in Touching(key) : j <= i
         IN IF log[k].op = "save" THEN Some(log[k].arg) ELSE None

\* since when key has been in the repository: its first save after its last delete
InsertedAt(key) ==
    LET since == {i \in Touching(key) :
                    /\ log[i].op = "save"
                    /\ \A j \in Touching(key) : log[j].op = "delete" => j < i}
    IN CHOOSE i \in since : \A j \in since : i <= j

\* the templates in the repository whose text before the first "{" is a prefix of uri
SavedTemplates(uri) ==
    {u \in {log[i].arg.uri : i \in {j \in 1..Len(log) : log[j].op = "save"}} :
       /\ LastSaved(u) # None
       /\ Get(LastSaved(u)).is_template
       /\ StartsWith(uri, BeforeBrace(u))}

\* the step in which the repository method op returned
RepositoryStep(op) == ops' = ops + 1 /\ call'.op = op

\* delete returns true exactly when the key was present, and the key is absent afterwards
DeleteContract ==
    RepositoryStep("delete")
       => /\ call'.ret = (LastSaved(call'.arg) # None)
          /\ DictGet(repository'.items, call'.arg) = None

\* C29 (as claimed): in every in-memory repository, get(key) returns the entity
\* saved last under key if it was not deleted since, and nothing otherwise, and
\* delete returns true exactly when the key was present
C29_RepositoryGetDelete ==
    [][/\ RepositoryStep("get") => call'.ret = LastSaved(call'.arg)
       /\ DeleteContract]_vars

\* C29 (amended): the claim holds for the session, conversation, tool and prompt
\* repositories; the resource repository deletes in the same way, and its
\* get(uri) returns the resource saved last under uri if it was not deleted
\* since, otherwise the matching template that has been in the repository
\* longest, otherwise nothing
C29_RepositoryGetDeleteTemplates ==
    [][/\ RepositoryStep("get") =>
            IF repository.kind # "resource" \/ LastSaved(call'.arg) # None
               \/ SavedTemplates(call'.arg) = {}
            THEN call'.ret = LastSaved(call'.arg)
            ELSE \E u \in SavedTemplates(call'.arg) :
                    /\ \A v \in SavedTemplates(call'.arg) : InsertedAt(u) <= InsertedAt(v)
                    /\ call'.ret = LastSaved(u)
       /\ DeleteContract]_vars

\* in the resource repository the plain resource a/b and the template a/{} were
\* saved, the first delete of a/b returned true, the second returned false, and
\* get(a/b) then returned the template
C29_Witness ==
    /\ repository.kind = "resource"
    /\ Len(log) = 4
    /\ log[1].op = "save" /\ log[1].arg = ResourceCreate(<<"a", "b">>, TRUE)
    /\ log[2].op = "save" /\ log[2].arg = ResourceCreate(<<"a", "{", "}">>, TRUE)
    /\ log[3].op = "delete" /\ log[3].arg = <<"a", "b">> /\ log[3].ret = TRUE
    /\ log[4].op = "delete" /\ log[4].arg = <<"a", "b">> /\ log[4].ret = FALSE
    /\ call.op = "get" /\ call.arg = <<"a", "b">>
    /\ call.ret = Some(ResourceCreate(<<"a", "{", "}">>, TRUE))


\* value matches ^[a-z][a-z0-9_]*$: a lower-case letter followed by lower-case
\* letters, digits and underscores, and nothing else
MatchesToolNamePattern(value) ==
    /\ Len(value) >= 1
    /\ value[1] \in LowerLetters
    /\ \A i \in 2..Len(value) : value[i] \in LowerLetters \cup Digits \cup {"_"}

\* C30 (as claimed): ToolName construction succeeds for every string that matches
\* ^[a-z][a-z0-9_]*$ and fails for every other string
C30_ToolNameIffPattern ==
    call.op = "ToolName" => (call.ret.ok <=> MatchesToolNamePattern(call.value))

\* C31 (as claimed): an initialize request that arrives while the server holds no
\* session and is answered with an error leaves the server without a session
\* and without a tool handler, so that a later initialize request can succeed.
C31_FailedInitializeLeavesNoSession ==
    [][(/\ CallStep
        /\ ReqNext.method = "initialize"
        /\ session = None
        /\ lastResp' # None
        /\ "error" \in RespNext.keys)
       => /\ session' = None
          /\ tool_handler' = None]_vars

\* the three states a Session rests in, and their order
RestingStates == {"created", "ready", "closed"}
StateRank(st) ==
    CASE st = "created" -> 0 [] st = "initializing" -> 1 [] st = "ready" -> 2
      [] st = "closing" -> 3 [] OTHER -> 4

\* C32: the session state only moves forward through CREATED, READY, CLOSED: an
\* operation on a session that rests in one of the three leaves it in one of the
\* three and never in an earlier one, and no operation, registry operations
\* included, leaves CLOSED, so a closed session is never READY again.
C32_StateOnlyMovesForward ==
    [][LET st == Get(session).state
           st2 == Get(session').state
       IN /\ st \in RestingStates => st2 \in RestingStates
          /\ StateRank(st2) >= StateRank(st)
          /\ st = "closed" => st2 = "closed"]_vars

\* a session that was initialized and closed has refused a second initialize
C32_Witness ==
    /\ Get(session).state = "closed"
    /\ Get(session).initialized_at # None
    /\ Get(session).client_info # None
    /\ call.op = "initialize"
    /\ outcome.kind = "raise"

\* C33 (as claimed): the two-step changes of initialize and of close are atomic:
\* no thread ever observes the session in state INITIALIZING or CLOSING.
C33_NoIntermediateStateObserved ==
    \A t \in 1..MaxThreads :
        (threads[t].pc = "done" /\ threads[t].op = "to_dict")
            => threads[t].ret \notin {"initializing", "closing"}

\* a tools/call handler task is running
HandlerRunning == \E i \in 1..MaxCalls : calls[i].handler = "running"

\* C34 (as claimed): while a tools/call handler is still running the run loop
\* can read the next request line: it is at its readline, not held by the handler.
C34_SlowHandlerDoesNotBlockReading ==
    HandlerRunning => pc = "reading"

\* C34 (amended): the run loop awaits each tools/call to its end (the handler
\* returned, raised, or timed out and was cancelled) before it reads the next
\* line: at every read of a line no handler is running and no call is in flight.
C34_ReadsOnlyBetweenCalls ==
    [][LineStep => /\ ~HandlerRunning
                   /\ \A i \in 1..MaxCalls : calls[i].pc \in {"idle", "done"}]_vars

\* the second line was read after the handler of the first call had timed out
C34_Witness ==
    /\ linesRead = 2
    /\ pc = "awaiting"
    /\ calls[1].pc = "done" /\ calls[1].beh = "slow" /\ calls[1].handler = "cancelled"
    /\ calls[1].steps > 0
    /\ Len(stdout) = 1

\* stop() was called while the loop was running and waiting in readline
StoppedWhileReading == pc = "reading" /\ ~running

\* C35 (as claimed): once stop() has been called on a running server, no request
\* is dispatched any more: a line that arrives after stop() is not handled
\* against the closed session.
C35_NoDispatchAfterStop ==
    [][(StoppedWhileReading /\ LineStep) => ~dispatched']_vars

\* the request read in this step is a resources/read whose uri the session
\* resolves through a template resource
ReadThroughTemplate ==
    /\ CallStep
    /\ ReqNext.method = "resources/read"
    /\ session # None
    /\ ReqNext.params.isDict /\ ReqNext.params.uri # <<>>
    /\ SessionGetResource(Get(session), ReqNext.params.uri) # None
    /\ Get(SessionGetResource(Get(session), ReqNext.params.uri)).is_template

\* C36 (as claimed): resources/read for a URI that is resolved through a template
\* resource invokes the reader with the requested URI, and the contents entry
\* returned carries the requested URI, not the template's own URI.
C36_TemplateReadCarriesRequestedURI ==
    [][(ReadThroughTemplate /\ outcome'.kind = "return")
       => Get(outcome'.result).contents[1].uri = ReqNext.params.uri]_vars

\* the resources registered with the session before the step
Registered == {Get(session).resources[i][2] : i \in 1..Len(Get(session).resources)}
\* the URIs that the result of a resources/list call names, and the URI
\* templates that the result of a resources/templates/list call names
ListedURIs(result) == {result.resources[i].uri : i \in 1..Len(result.resources)}
ListedTemplates(result) ==
    {result.resourceTemplates[i].uriTemplate : i \in 1..Len(result.resourceTemplates)}

\* C37: every registered resource is listed by exactly one of resources/list and
\* resources/templates/list: resources/list names exactly the non-template
\* resources, resources/templates/list exactly the template resources.
C37_ListedByExactlyOne ==
    /\ [][(CallStep /\ ReqNext.method = "resources/list" /\ session # None)
          => /\ outcome'.kind = "return"
             /\ \A r \in Registered :
                  r.uri \in ListedURIs(Get(outcome'.result)) <=> ~r.is_template]_vars
    /\ [][(CallStep /\ ReqNext.method = "resources/templates/list" /\ session # None)
          => /\ outcome'.kind = "return"
             /\ \A r \in Registered :
                  r.uri \in ListedTemplates(Get(outcome'.result)) <=> r.is_template]_vars

\* resources/templates/list named the one template of a session that holds a
\* plain resource and a template made from a URI without braces
C37_Witness ==
    /\ line # None /\ dispatched
    /\ Req.method = "resources/templates/list"
    /\ outcome.kind = "return"
    /\ Len(Get(outcome.result).resourceTemplates) = 1
    /\ Len(Get(session).resources) = 2
    /\ \E i \in 1..2 : Get(session).resources[i][2] = ResourceTemplate(<<"c">>, TRUE)
    /\ \E i \in 1..2 : ~Get(session).resources[i][2].is_template

\* the saved sessions that are in state READY
ReadySessions ==
    {repository.items[i][2] : i \in {j \in 1..Len(repository.items) :
                                       repository.items[j][2].state = "ready"}}

\* C38 (as claimed): after any sequence of SessionHandler initialize and close
\* commands, at most one saved session is in state READY, and it is the
\* handler's current session.
C38_AtMostOneReadySession ==
    /\ Cardinality(ReadySessions) <= 1
    /\ \A s \in ReadySessions : session # None /\ Get(session).id = s.id

====
